---------------------------- MODULE Spec2Model ----------------------------
(***************************************************************************)
(* Model of the CommandStation-EX hardware abstraction layer: the IODevice *)
(* chain and its static dispatch functions (IODevice.cpp), the PCF8574 and *)
(* MCP23017 port expander drivers and the Analogue servo animation device. *)
(*                                                                         *)
(* Integer widths follow the AVR build the code is written for (int and    *)
(* unsigned int are 16 bits, see IO_AnalogueDevice.cpp:66; unsigned long   *)
(* is 32 bits; VPIN is uint16_t).                                          *)
(***************************************************************************)
EXTENDS Integers, Sequences, FiniteSets, TLC

VARIABLES
  chain,     \* the device chain, head first: _firstDevice, _nextDevice
  nextId,    \* identity given to the next device allocated with new
  clock,     \* the value micros() returns, 32 bits
  op,        \* history: the public operation performed by the last step
  ret,       \* history: the value that operation returned
  calls,     \* history: the device hooks invoked during the last step
  bus,       \* history: the I2C transactions issued during the last step
  created,   \* history: every device creation so far, in order
  cacheAge,  \* history: per device and module, the last bus read's age
  budget,    \* number of devices that may still be created
  readAt,    \* history: per followed device and module, when the bus was read
  sinceFired \* history: per followed device, the time since its hook last fired

vars == <<chain, nextId, clock, op, ret, calls, bus, created, cacheAge, budget, readAt,
          sinceFired>>

----------------------------------------------------------------------------
\* Bounds of the model.

\* Most devices that are ever created in one behaviour of the registry.
MaxDevices == 2

\* Most devices that are ever created when only the chain is exercised.
MaxChainDevices == 3

\* Most ticks the age of a cached read is counted to.
MaxAge == 3

\* Largest clock value from which time still advances.
MaxClock == 40000
MaxTickClock == 900
MaxDecayClock == 1250

----------------------------------------------------------------------------
\* Program constants.

VPIN_MAX == 65534
VPIN_NONE == 65535
PCF8574_maxModules == 8
MCP23017_maxModules == 8
portTickTime == 500
minTicksBetweenPortReads == 2

\* IO_AnalogueDevice.h is not part of the sources at hand.
catchupSteps == 5
refreshInterval == 50

\* enum ProfileType
Instant == 0
Fast == 1
Medium == 2
Slow == 3
Bounce == 4

\* Analogue::profile[30]
profile ==
  <<2,3,7,13,33,50,83,100,83,75,70,65,60,60,65,74,84,100,83,75,70,70,72,75,80,87,92,97,100,100>>

----------------------------------------------------------------------------
\* Machine arithmetic.

Pow2(k) == IF k = 0 THEN 1 ELSE IF k = 1 THEN 2 ELSE IF k = 2 THEN 4
           ELSE IF k = 3 THEN 8 ELSE IF k = 4 THEN 16 ELSE IF k = 5 THEN 32
           ELSE IF k = 6 THEN 64 ELSE 128

\* uint16_t / unsigned int
U16(x) == x % 65536

\* unsigned long: a 32-bit value is kept as its two 16-bit halves.
Zero32 == [hi |-> 0, lo |-> 0]

\* a + n for 0 <= n < 2^31, modulo 2^32
Add32(a, n) == [hi |-> (a.hi + ((a.lo + n) \div 65536)) % 65536,
                lo |-> (a.lo + n) % 65536]

\* a - b modulo 2^32
Sub32(a, b) == [hi |-> (a.hi - b.hi - (IF a.lo < b.lo THEN 1 ELSE 0)) % 65536,
                lo |-> (a.lo - b.lo) % 65536]

\* a > n for 0 <= n < 65536
Gt32(a, n) == a.hi > 0 \/ a.lo > n

\* a / n for 0 < n < 65536
Div32(a, n) == a.hi * (65536 \div n) + ((a.hi * (65536 % n) + a.lo) \div n)

\* int (16 bits, two's complement)
I16(x) == LET y == x % 65536 IN IF y >= 32768 THEN y - 65536 ELSE y

\* uint8_t
U8(x) == x % 256

Min(a, b) == IF a < b THEN a ELSE b

\* C integer division, truncating towards zero.
CDiv(a, b) == IF (a >= 0) = (b > 0) THEN a \div b
              ELSE IF a >= 0 THEN -(a \div (-b))
              ELSE -((-a) \div b)

\* (x & mask) != 0 for mask = 1 << k
TestBit(x, k) == (x \div Pow2(k)) % 2 = 1

\* x |= mask
SetBit(x, k) == IF TestBit(x, k) THEN x ELSE x + Pow2(k)

\* x &= ~mask
ClearBit(x, k) == IF TestBit(x, k) THEN x - Pow2(k) ELSE x

----------------------------------------------------------------------------
\* Devices.  One record shape serves every class; a class uses its own fields.

NoDevice ==
  [id |-> 0, kind |-> "none", variant |-> 0, firstID |-> 0, nPins |-> 0,
   nModules |-> 0, I2CAddress |-> 0,
   portInputState |-> <<>>, portOutputState |-> <<>>, portCounter |-> <<>>,
   counterSet |-> FALSE, lastLoopEntry |-> Zero32,
   currentPortStateA |-> <<>>, currentPortStateB |-> <<>>,
   portModeA |-> <<>>, portModeB |-> <<>>,
   portPullupA |-> <<>>, portPullupB |-> <<>>,
   state |-> 0, devicePin |-> 0, activePosition |-> 0, inactivePosition |-> 0,
   currentPosition |-> 0, fromPosition |-> 0, toPosition |-> 0,
   profileKind |-> 0, stepNumber |-> 0, numSteps |-> 0, lastRefreshTime |-> 0]

\* The sum _firstID + _nPins is formed in unsigned int (uint16_t + int).
owns(dev, id) == id >= dev.firstID /\ id < U16(dev.firstID + dev.nPins)

isDeletable_Always(dev) == TRUE
isDeletable(dev) == dev.kind = "Analogue"

\* Position in ch of the first device at or after position from that owns
\* vpin; 0 when there is none.  This is the scan loop shared by exists,
\* configure, write, read and writeDownstream.
FirstOwnerFrom_Last(ch, from, vpin) ==
  LET S == {j \in from..Len(ch) : owns(ch[j], vpin)}
  IN IF S = {} THEN 0 ELSE CHOOSE j \in S : \A k \in S : j >= k
FirstOwnerFrom(ch, from, vpin) ==
  LET S == {j \in from..Len(ch) : owns(ch[j], vpin)}
  IN IF S = {} THEN 0 ELSE CHOOSE j \in S : \A k \in S : j <= k

\* Execution context threaded through the hooks of one operation.
Ctx(ch, env) == [chain |-> ch, calls |-> <<>>, bus |-> <<>>, ret |-> 0,
                 clock |-> clock, env |-> env]

Called(cx, i, by, h, pin, value) ==
  [cx EXCEPT !.calls = Append(@, [h |-> h, to |-> cx.chain[i].id, by |-> by,
                                  pin |-> pin, value |-> value,
                                  head |-> cx.chain[1].id])]

BusIO(cx, i, rw, addr, reg, data) ==
  [cx EXCEPT !.bus = Append(@, [dev |-> cx.chain[i].id, rw |-> rw, addr |-> addr,
                                reg |-> reg, data |-> data,
                                ok |-> (rw = "w" \/ cx.env.ok)])]

Zeros(n) == [i \in 1..n |-> 0]
Filled(n, v) == [i \in 1..n |-> v]

----------------------------------------------------------------------------
\* PCF8574.  variant 1 is IO_PCF8574.cpp, variant 2 is the second revision of
\* the driver (unnamed/part_000).

PCF8574_begin(cx, i) ==
  LET d == cx.chain[i]
  IN [cx EXCEPT !.chain[i].portInputState = Zeros(d.nModules),
                !.chain[i].portOutputState = Zeros(d.nModules),
                !.chain[i].portCounter = Zeros(d.nModules)]

PCF8574_write_KeepCounter(cx, i, vpin, value) ==
  LET d == cx.chain[i]
      pin0 == vpin - d.firstID
      m == (pin0 \div 8) + 1
      pin == pin0 % 8
      out == IF value # 0 THEN SetBit(d.portOutputState[m], pin)
                          ELSE ClearBit(d.portOutputState[m], pin)
      cx1 == [cx EXCEPT !.chain[i].portOutputState[m] = out]
  IN BusIO(cx1, i, "w", d.I2CAddress + m - 1, -1, out)
PCF8574_write(cx, i, vpin, value) ==
  LET d == cx.chain[i]
      pin0 == vpin - d.firstID
      m == (pin0 \div 8) + 1
      pin == pin0 % 8
      out == IF value # 0 THEN SetBit(d.portOutputState[m], pin)
                          ELSE ClearBit(d.portOutputState[m], pin)
      cx1 == [cx EXCEPT !.chain[i].portOutputState[m] = out]
      cx2 == BusIO(cx1, i, "w", d.I2CAddress + m - 1, -1, out)
  IN [cx2 EXCEPT !.chain[i].portCounter[m] = 0]

\* The byte _read stores after I2CManager.read: variant 1 stores inBuffer
\* whether or not the transfer filled it (env.byte is then what the stack
\* held), variant 2 stores 0 when the transfer did not return one byte.
PCF8574_inByte(d, env) ==
  IF d.variant = 2 /\ ~env.ok THEN 0 ELSE env.byte

PCF8574_read_NoCache(cx, i, vpin) ==
  LET d == cx.chain[i]
      pin0 == vpin - d.firstID
      m == (pin0 \div 8) + 1
      pin == pin0 % 8
      send == ~TestBit(d.portOutputState[m], pin)
      out == SetBit(d.portOutputState[m], pin)
      inb == PCF8574_inByte(d, cx.env)
      cx1 == [cx EXCEPT !.chain[i].portOutputState[m] = out]
      cx2 == BusIO(cx1, i, "r", d.I2CAddress + m - 1, -1, IF send THEN out ELSE -1)
      cx3 == [cx2 EXCEPT !.chain[i].portInputState[m] = inb,
                         !.chain[i].portCounter[m] = minTicksBetweenPortReads,
                         !.chain[i].counterSet = IF d.variant = 1 THEN TRUE ELSE @]
  IN [cx3 EXCEPT !.ret = IF TestBit(cx3.chain[i].portInputState[m], pin) THEN 1 ELSE 0]
PCF8574_read_DriveOnly(cx, i, vpin) ==
  LET d == cx.chain[i]
      pin0 == vpin - d.firstID
      m == (pin0 \div 8) + 1
      pin == pin0 % 8
      send == ~TestBit(d.portOutputState[m], pin)
      out == SetBit(d.portOutputState[m], pin)
      counter == d.portCounter[m]
      inb == PCF8574_inByte(d, cx.env)
      cx1 == [cx EXCEPT !.chain[i].portOutputState[m] = out,
                        !.chain[i].portCounter[m] = counter]
      cx2 == BusIO(cx1, i, "r", d.I2CAddress + m - 1, -1, IF send THEN out ELSE -1)
      cx3 == IF counter = 0
             THEN [cx2 EXCEPT !.chain[i].portInputState[m] = inb,
                              !.chain[i].portCounter[m] = minTicksBetweenPortReads,
                              !.chain[i].counterSet = IF d.variant = 1 THEN TRUE ELSE @]
             ELSE cx1
  IN [cx3 EXCEPT !.ret = IF TestBit(cx3.chain[i].portInputState[m], pin) THEN 1 ELSE 0]
PCF8574_read_NoDrive(cx, i, vpin) ==
  LET d == cx.chain[i]
      pin0 == vpin - d.firstID
      m == (pin0 \div 8) + 1
      pin == pin0 % 8
      send == ~TestBit(d.portOutputState[m], pin)
      out == d.portOutputState[m]
      counter == IF send THEN 0 ELSE d.portCounter[m]
      inb == PCF8574_inByte(d, cx.env)
      cx1 == [cx EXCEPT !.chain[i].portOutputState[m] = out,
                        !.chain[i].portCounter[m] = counter]
      cx2 == BusIO(cx1, i, "r", d.I2CAddress + m - 1, -1, IF send THEN out ELSE -1)
      cx3 == IF send \/ counter = 0
             THEN [cx2 EXCEPT !.chain[i].portInputState[m] = inb,
                              !.chain[i].portCounter[m] = minTicksBetweenPortReads,
                              !.chain[i].counterSet = IF d.variant = 1 THEN TRUE ELSE @]
             ELSE cx1
  IN [cx3 EXCEPT !.ret = IF TestBit(cx3.chain[i].portInputState[m], pin) THEN 1 ELSE 0]
PCF8574_read_NoFlag(cx, i, vpin) ==
  LET d == cx.chain[i]
      pin0 == vpin - d.firstID
      m == (pin0 \div 8) + 1
      pin == pin0 % 8
      send == ~TestBit(d.portOutputState[m], pin)
      out == SetBit(d.portOutputState[m], pin)
      counter == IF send THEN 0 ELSE d.portCounter[m]
      inb == PCF8574_inByte(d, cx.env)
      cx1 == [cx EXCEPT !.chain[i].portOutputState[m] = out,
                        !.chain[i].portCounter[m] = counter]
      cx2 == BusIO(cx1, i, "r", d.I2CAddress + m - 1, -1, IF send THEN out ELSE -1)
      cx3 == IF send \/ counter = 0
             THEN [cx2 EXCEPT !.chain[i].portInputState[m] = inb,
                              !.chain[i].portCounter[m] = minTicksBetweenPortReads]
             ELSE cx1
  IN [cx3 EXCEPT !.ret = IF TestBit(cx3.chain[i].portInputState[m], pin) THEN 1 ELSE 0]
PCF8574_read(cx, i, vpin) ==
  LET d == cx.chain[i]
      pin0 == vpin - d.firstID
      m == (pin0 \div 8) + 1
      pin == pin0 % 8
      send == ~TestBit(d.portOutputState[m], pin)
      out == SetBit(d.portOutputState[m], pin)
      counter == IF send THEN 0 ELSE d.portCounter[m]
      inb == PCF8574_inByte(d, cx.env)
      cx1 == [cx EXCEPT !.chain[i].portOutputState[m] = out,
                        !.chain[i].portCounter[m] = counter]
      cx2 == BusIO(cx1, i, "r", d.I2CAddress + m - 1, -1, IF send THEN out ELSE -1)
      cx3 == IF send \/ counter = 0
             THEN [cx2 EXCEPT !.chain[i].portInputState[m] = inb,
                              !.chain[i].portCounter[m] = minTicksBetweenPortReads,
                              !.chain[i].counterSet = IF d.variant = 1 THEN TRUE ELSE @]
             ELSE cx1
  IN [cx3 EXCEPT !.ret = IF TestBit(cx3.chain[i].portInputState[m], pin) THEN 1 ELSE 0]

\* int elapsedTicks = (currentMicros - _lastLoopEntry) / _portTickTime
elapsedTicks(d, currentMicros) ==
  I16(Div32(Sub32(currentMicros, d.lastLoopEntry), portTickTime))

\* One counter after a tick in variant 1: uint8_t compared with and reduced
\* by the int elapsedTicks.
PCF8574_decay(c, ticks) == IF c > ticks THEN U8(c - ticks) ELSE 0

PCF8574_loop_NoDecay(cx, i, currentMicros) ==
  LET d == cx.chain[i]
  IN IF Gt32(Sub32(currentMicros, d.lastLoopEntry), portTickTime)
     THEN [cx EXCEPT !.chain[i].lastLoopEntry = currentMicros]
     ELSE cx
PCF8574_loop_Inclusive(cx, i, currentMicros) ==
  LET d == cx.chain[i]
      due == Gt32(Sub32(currentMicros, d.lastLoopEntry), portTickTime - 1)
      t == elapsedTicks(d, currentMicros)
      c1 == [m \in 1..d.nModules |-> PCF8574_decay(d.portCounter[m], t)]
      c2 == [m \in 1..d.nModules |->
               IF d.portCounter[m] > 0 THEN d.portCounter[m] - 1 ELSE 0]
  IN IF ~due THEN cx
     ELSE IF d.variant = 1
     THEN IF d.counterSet
          THEN [cx EXCEPT !.chain[i].portCounter = c1,
                          !.chain[i].counterSet = \E m \in 1..d.nModules : c1[m] > 0,
                          !.chain[i].lastLoopEntry = currentMicros]
          ELSE [cx EXCEPT !.chain[i].lastLoopEntry = currentMicros]
     ELSE [cx EXCEPT !.chain[i].portCounter = c2,
                     !.chain[i].lastLoopEntry = currentMicros]
PCF8574_loop(cx, i, currentMicros) ==
  LET d == cx.chain[i]
      due == Gt32(Sub32(currentMicros, d.lastLoopEntry), portTickTime)
      t == elapsedTicks(d, currentMicros)
      c1 == [m \in 1..d.nModules |-> PCF8574_decay(d.portCounter[m], t)]
      c2 == [m \in 1..d.nModules |->
               IF d.portCounter[m] > 0 THEN d.portCounter[m] - 1 ELSE 0]
  IN IF ~due THEN cx
     ELSE IF d.variant = 1
     THEN IF d.counterSet
          THEN [cx EXCEPT !.chain[i].portCounter = c1,
                          !.chain[i].counterSet = \E m \in 1..d.nModules : c1[m] > 0,
                          !.chain[i].lastLoopEntry = currentMicros]
          ELSE [cx EXCEPT !.chain[i].lastLoopEntry = currentMicros]
     ELSE [cx EXCEPT !.chain[i].portCounter = c2,
                     !.chain[i].lastLoopEntry = currentMicros]

\* PCF8574::_configure(VPIN vpin, bool pullup) of the second source. Its
\* parameter list is not that of the virtual _configure(VPIN, int, int[]) of
\* IODevice, so it does not override it and the dispatcher never calls it.
PCF8574_configure(vpin, pullup) == pullup

----------------------------------------------------------------------------
\* MCP23017.

MCP23017_begin(cx, i) ==
  LET d == cx.chain[i]
      n == d.nModules
      cx1 == [cx EXCEPT !.chain[i].portModeA = Filled(n, 255),
                        !.chain[i].portModeB = Filled(n, 255),
                        !.chain[i].portPullupA = Zeros(n),
                        !.chain[i].portPullupB = Zeros(n),
                        !.chain[i].currentPortStateA = Zeros(n),
                        !.chain[i].currentPortStateB = Zeros(n)]
      regs == <<<<18, 0>>, <<19, 0>>, <<0, 255>>, <<1, 255>>, <<12, 0>>, <<13, 0>>>>
      io == [k \in 1..(6 * n) |->
               [dev |-> d.id, rw |-> "w", addr |-> d.I2CAddress + ((k - 1) \div 6),
                reg |-> regs[((k - 1) % 6) + 1][1],
                data |-> regs[((k - 1) % 6) + 1][2], ok |-> TRUE]]
  IN [cx1 EXCEPT !.bus = @ \o io]

\* The port is chosen by deviceIndex < 8, which holds for every module, so
\* every pin is written through the A registers; the chip address is
\* _I2CAddress without the module index.
MCP23017_write(cx, i, vpin, value) ==
  LET d == cx.chain[i]
      pin0 == vpin - d.firstID
      m == (pin0 \div 16) + 1
      bit == (pin0 % 16) % 8
      st == IF value # 0 THEN SetBit(d.currentPortStateA[m], bit)
                         ELSE ClearBit(d.currentPortStateA[m], bit)
      cx1 == BusIO([cx EXCEPT !.chain[i].currentPortStateA[m] = st],
                   i, "w", d.I2CAddress, 18, st)
  IN IF TestBit(d.portModeA[m], bit)
     THEN BusIO([cx1 EXCEPT !.chain[i].portModeA[m] = ClearBit(@, bit)],
                i, "w", d.I2CAddress, 0, ClearBit(d.portModeA[m], bit))
     ELSE cx1

MCP23017_read(cx, i, vpin) ==
  LET d == cx.chain[i]
      pin0 == vpin - d.firstID
      m == (pin0 \div 16) + 1
      pin == pin0 % 16
      bit == pin % 8
      portA == pin < 8
      mode == IF portA THEN d.portModeA[m] ELSE d.portModeB[m]
      pull == IF portA THEN d.portPullupA[m] ELSE d.portPullupB[m]
      cx1 == IF TestBit(mode, bit) THEN cx
             ELSE BusIO(IF portA
                        THEN [cx EXCEPT !.chain[i].portModeA[m] = SetBit(@, bit)]
                        ELSE [cx EXCEPT !.chain[i].portModeB[m] = SetBit(@, bit)],
                        i, "w", d.I2CAddress, IF portA THEN 0 ELSE 1, SetBit(mode, bit))
      cx2 == IF TestBit(pull, bit) THEN cx1
             ELSE BusIO(IF portA
                        THEN [cx1 EXCEPT !.chain[i].portPullupA[m] = SetBit(@, bit)]
                        ELSE [cx1 EXCEPT !.chain[i].portPullupB[m] = SetBit(@, bit)],
                        i, "w", d.I2CAddress, IF portA THEN 12 ELSE 13, SetBit(pull, bit))
      cx3 == BusIO(cx2, i, "r", d.I2CAddress, IF portA THEN 18 ELSE 19, -1)
  IN [cx3 EXCEPT !.ret = IF TestBit(cx.env.byte, bit) THEN 1 ELSE 0]

----------------------------------------------------------------------------
\* ArduinoPins: digitalRead supplies the level of the pin.

ArduinoPins_read(cx, i, vpin) == [cx EXCEPT !.ret = cx.env.byte % 2]

----------------------------------------------------------------------------
\* Analogue, and the hooks' dynamic dispatch.

RECURSIVE Dev_write(_, _, _, _, _)

IODevice_writeDownstream_FromHead(cx, i, vpin, value) ==
  LET j == FirstOwnerFrom(cx.chain, 1, vpin)
  IN IF j = 0 THEN cx ELSE Dev_write(cx, j, cx.chain[i].id, vpin, value)
IODevice_writeDownstream(cx, i, vpin, value) ==
  LET j == FirstOwnerFrom(cx.chain, i + 1, vpin)
  IN IF j = 0 THEN cx ELSE Dev_write(cx, j, cx.chain[i].id, vpin, value)

\* Arduino map(): long arithmetic, quotient truncated towards zero.
map_Short(x, in_min, in_max, out_min, out_max) ==
  CDiv((x - in_min) * (out_max - out_min), in_max - in_min + 1) + out_min
map(x, in_min, in_max, out_min, out_max) ==
  CDiv((x - in_min) * (out_max - out_min), in_max - in_min) + out_min

Analogue_updatePosition_StepLate(cx, i) ==
  LET d == cx.chain[i]
      linear == d.profileKind \in {Instant, Fast, Medium, Slow}
      changed == d.profileKind \in {Instant, Fast, Medium, Slow, Bounce}
                 /\ d.stepNumber < d.numSteps
      pos == IF linear
             THEN U16(map(d.stepNumber, 0, d.numSteps, d.fromPosition, d.toPosition))
             ELSE U16(map(profile[d.stepNumber + 1], 0, 100, d.fromPosition, d.toPosition))
  IN IF d.stepNumber > d.numSteps + catchupSteps THEN cx
     ELSE IF changed
     THEN IODevice_writeDownstream(
            [cx EXCEPT !.chain[i].stepNumber = d.stepNumber + 1,
                       !.chain[i].currentPosition = pos],
            i, d.devicePin, I16(pos))
     ELSE IF d.stepNumber < d.numSteps + catchupSteps
     THEN [cx EXCEPT !.chain[i].stepNumber = d.stepNumber + 1]
     ELSE IF d.stepNumber = d.numSteps + catchupSteps
             /\ d.currentPosition # 4095 /\ d.currentPosition # 0
     THEN [IODevice_writeDownstream(cx, i, d.devicePin, 0)
             EXCEPT !.chain[i].stepNumber = d.stepNumber + 1]
     ELSE cx
Analogue_updatePosition_BuzzOn(cx, i) ==
  LET d == cx.chain[i]
      linear == d.profileKind \in {Instant, Fast, Medium, Slow}
      changed == d.profileKind \in {Instant, Fast, Medium, Slow, Bounce}
                 /\ d.stepNumber < d.numSteps
      pos == IF linear
             THEN U16(map(d.stepNumber + 1, 0, d.numSteps, d.fromPosition, d.toPosition))
             ELSE U16(map(profile[d.stepNumber + 1], 0, 100, d.fromPosition, d.toPosition))
  IN IF d.stepNumber > d.numSteps + catchupSteps THEN cx
     ELSE IF changed
     THEN IODevice_writeDownstream(
            [cx EXCEPT !.chain[i].stepNumber = d.stepNumber + 1,
                       !.chain[i].currentPosition = pos],
            i, d.devicePin, I16(pos))
     ELSE IF d.stepNumber < d.numSteps + catchupSteps
     THEN [cx EXCEPT !.chain[i].stepNumber = d.stepNumber + 1]
     ELSE IF d.stepNumber = d.numSteps + catchupSteps
             /\ d.currentPosition # 4095 /\ d.currentPosition # 0
     THEN [cx EXCEPT !.chain[i].stepNumber = d.stepNumber + 1]
     ELSE cx
Analogue_updatePosition_CountOn(cx, i) ==
  LET d == cx.chain[i]
      linear == d.profileKind \in {Instant, Fast, Medium, Slow}
      changed == d.profileKind \in {Instant, Fast, Medium, Slow, Bounce}
                 /\ d.stepNumber < d.numSteps
      pos == IF linear
             THEN U16(map(d.stepNumber + 1, 0, d.numSteps, d.fromPosition, d.toPosition))
             ELSE U16(map(profile[d.stepNumber + 1], 0, 100, d.fromPosition, d.toPosition))
  IN IF changed
     THEN IODevice_writeDownstream(
            [cx EXCEPT !.chain[i].stepNumber = d.stepNumber + 1,
                       !.chain[i].currentPosition = pos],
            i, d.devicePin, I16(pos))
     ELSE IF d.stepNumber # d.numSteps + catchupSteps
     THEN [cx EXCEPT !.chain[i].stepNumber = d.stepNumber + 1]
     ELSE IF d.stepNumber = d.numSteps + catchupSteps
             /\ d.currentPosition # 4095 /\ d.currentPosition # 0
     THEN [IODevice_writeDownstream(cx, i, d.devicePin, 0)
             EXCEPT !.chain[i].stepNumber = d.stepNumber + 1]
     ELSE cx
Analogue_updatePosition_Waits(cx, i) ==
  LET d == cx.chain[i]
      linear == d.profileKind \in {Instant, Fast, Medium, Slow}
      changed == d.profileKind \in {Instant, Fast, Medium, Slow, Bounce}
                 /\ d.stepNumber < d.numSteps
      pos == IF linear
             THEN U16(map(d.stepNumber + 1, 0, d.numSteps, d.fromPosition, d.toPosition))
             ELSE U16(map(profile[d.stepNumber + 1], 0, 100, d.fromPosition, d.toPosition))
  IN IF d.stepNumber > d.numSteps + catchupSteps THEN cx
     ELSE IF changed
     THEN IODevice_writeDownstream(
            [cx EXCEPT !.chain[i].stepNumber = d.stepNumber + 1,
                       !.chain[i].currentPosition = pos],
            i, d.devicePin, I16(pos))
     ELSE IF d.stepNumber < d.numSteps + catchupSteps
     THEN cx
     ELSE IF d.stepNumber = d.numSteps + catchupSteps
             /\ d.currentPosition # 4095 /\ d.currentPosition # 0
     THEN [IODevice_writeDownstream(cx, i, d.devicePin, 0)
             EXCEPT !.chain[i].stepNumber = d.stepNumber + 1]
     ELSE cx
Analogue_updatePosition(cx, i) ==
  LET d == cx.chain[i]
      linear == d.profileKind \in {Instant, Fast, Medium, Slow}
      changed == d.profileKind \in {Instant, Fast, Medium, Slow, Bounce}
                 /\ d.stepNumber < d.numSteps
      pos == IF linear
             THEN U16(map(d.stepNumber + 1, 0, d.numSteps, d.fromPosition, d.toPosition))
             ELSE U16(map(profile[d.stepNumber + 1], 0, 100, d.fromPosition, d.toPosition))
  IN IF d.stepNumber > d.numSteps + catchupSteps THEN cx
     ELSE IF changed
     THEN IODevice_writeDownstream(
            [cx EXCEPT !.chain[i].stepNumber = d.stepNumber + 1,
                       !.chain[i].currentPosition = pos],
            i, d.devicePin, I16(pos))
     ELSE IF d.stepNumber < d.numSteps + catchupSteps
     THEN [cx EXCEPT !.chain[i].stepNumber = d.stepNumber + 1]
     ELSE IF d.stepNumber = d.numSteps + catchupSteps
             /\ d.currentPosition # 4095 /\ d.currentPosition # 0
     THEN [IODevice_writeDownstream(cx, i, d.devicePin, 0)
             EXCEPT !.chain[i].stepNumber = d.stepNumber + 1]
     ELSE cx

\* _numSteps chosen by the switch on _profile.
StepsOf_Short(p) == IF p = Instant THEN 1 ELSE IF p = Fast THEN 10
              ELSE IF p = Medium THEN 20 ELSE IF p = Slow THEN 40
              ELSE IF p = Bounce THEN Len(profile) - 1 ELSE 10
StepsOf(p) == IF p = Instant THEN 1 ELSE IF p = Fast THEN 10
              ELSE IF p = Medium THEN 20 ELSE IF p = Slow THEN 40
              ELSE IF p = Bounce THEN Len(profile) ELSE 10

Analogue_write_Restart(cx, i, vpin, value) ==
  LET d == cx.chain[i]
      v == IF value # 0 THEN 1 ELSE 0
      first == IF d.state # 0 THEN d.activePosition ELSE d.inactivePosition
      target == IF v # 0 THEN d.activePosition ELSE d.inactivePosition
  IN IF d.state = -1
     THEN Analogue_updatePosition(
            [cx EXCEPT !.chain[i].fromPosition = first,
                       !.chain[i].toPosition = first,
                       !.chain[i].currentPosition = first,
                       !.chain[i].state = v], i)
     ELSE [Analogue_updatePosition(
             [cx EXCEPT !.chain[i].numSteps = StepsOf(d.profileKind),
                        !.chain[i].profileKind =
                           IF @ \in {Instant, Fast, Medium, Slow, Bounce} THEN @ ELSE Fast,
                        !.chain[i].state = v,
                        !.chain[i].stepNumber = 0,
                        !.chain[i].fromPosition = d.currentPosition,
                        !.chain[i].toPosition = target], i)
            EXCEPT !.chain[i].lastRefreshTime = U16(Div32(cx.clock, 1000))]
Analogue_write_FromOrigin(cx, i, vpin, value) ==
  LET d == cx.chain[i]
      v == IF value # 0 THEN 1 ELSE 0
      first == IF d.state # 0 THEN d.activePosition ELSE d.inactivePosition
      target == IF v # 0 THEN d.activePosition ELSE d.inactivePosition
  IN IF d.state = -1
     THEN Analogue_updatePosition(
            [cx EXCEPT !.chain[i].fromPosition = first,
                       !.chain[i].toPosition = first,
                       !.chain[i].currentPosition = first,
                       !.chain[i].state = v], i)
     ELSE IF d.state = v THEN cx
     ELSE [Analogue_updatePosition(
             [cx EXCEPT !.chain[i].numSteps = StepsOf(d.profileKind),
                        !.chain[i].profileKind =
                           IF @ \in {Instant, Fast, Medium, Slow, Bounce} THEN @ ELSE Fast,
                        !.chain[i].state = v,
                        !.chain[i].stepNumber = 0,
                        !.chain[i].toPosition = target], i)
            EXCEPT !.chain[i].lastRefreshTime = U16(Div32(cx.clock, 1000))]
Analogue_write(cx, i, vpin, value) ==
  LET d == cx.chain[i]
      v == IF value # 0 THEN 1 ELSE 0
      first == IF d.state # 0 THEN d.activePosition ELSE d.inactivePosition
      target == IF v # 0 THEN d.activePosition ELSE d.inactivePosition
  IN IF d.state = -1
     THEN Analogue_updatePosition(
            [cx EXCEPT !.chain[i].fromPosition = first,
                       !.chain[i].toPosition = first,
                       !.chain[i].currentPosition = first,
                       !.chain[i].state = v], i)
     ELSE IF d.state = v THEN cx
     ELSE [Analogue_updatePosition(
             [cx EXCEPT !.chain[i].numSteps = StepsOf(d.profileKind),
                        !.chain[i].profileKind =
                           IF @ \in {Instant, Fast, Medium, Slow, Bounce} THEN @ ELSE Fast,
                        !.chain[i].state = v,
                        !.chain[i].stepNumber = 0,
                        !.chain[i].fromPosition = d.currentPosition,
                        !.chain[i].toPosition = target], i)
            EXCEPT !.chain[i].lastRefreshTime = U16(Div32(cx.clock, 1000))]

\* _configure(vpin, devicePin, activePosition, inactivePosition, profile)
Analogue_configure5_KeepSteps(cx, i, vpin, devicePin, activePosition, inactivePosition, prof) ==
  LET d == cx.chain[i]
      pos == IF d.state # 0 THEN U16(activePosition) ELSE U16(inactivePosition)
      cx1 == [cx EXCEPT !.chain[i].devicePin = U16(devicePin),
                        !.chain[i].activePosition = U16(activePosition),
                        !.chain[i].inactivePosition = U16(inactivePosition),
                        !.chain[i].currentPosition = pos,
                        !.chain[i].profileKind = U8(prof)]
      cx2 == IODevice_writeDownstream(cx1, i, vpin, I16(pos))
  IN cx2
Analogue_configure5(cx, i, vpin, devicePin, activePosition, inactivePosition, prof) ==
  LET d == cx.chain[i]
      pos == IF d.state # 0 THEN U16(activePosition) ELSE U16(inactivePosition)
      cx1 == [cx EXCEPT !.chain[i].devicePin = U16(devicePin),
                        !.chain[i].activePosition = U16(activePosition),
                        !.chain[i].inactivePosition = U16(inactivePosition),
                        !.chain[i].currentPosition = pos,
                        !.chain[i].profileKind = U8(prof)]
      cx2 == IODevice_writeDownstream(cx1, i, vpin, I16(pos))
  IN [cx2 EXCEPT !.chain[i].stepNumber = 0, !.chain[i].numSteps = 0]

\* _configure(vpin, paramCount, params)
Analogue_configure(cx, i, vpin, paramCount, params) ==
  IF paramCount # 4 THEN [cx EXCEPT !.ret = FALSE]
  ELSE [Analogue_configure5(cx, i, vpin, params[1], params[2], params[3], U8(params[4]))
          EXCEPT !.ret = TRUE]

Analogue_loop_Signed(cx, i, currentMicros) ==
  LET d == cx.chain[i]
      currentTime == currentMicros.lo
  IN IF currentTime - d.lastRefreshTime >= refreshInterval * 1000
     THEN [Analogue_updatePosition(cx, i) EXCEPT !.chain[i].lastRefreshTime = currentTime]
     ELSE cx
Analogue_loop(cx, i, currentMicros) ==
  LET d == cx.chain[i]
      currentTime == currentMicros.lo
  IN IF U16(currentTime - d.lastRefreshTime) >= refreshInterval * 1000
     THEN [Analogue_updatePosition(cx, i) EXCEPT !.chain[i].lastRefreshTime = currentTime]
     ELSE cx

\* dev->_write(vpin, value), called by the device with identity by (0 for the
\* static dispatcher).
Dev_write(cx, j, by, vpin, value) ==
  LET c == Called(cx, j, by, "write", vpin, value)
      k == c.chain[j].kind
  IN IF k = "PCF8574" THEN PCF8574_write(c, j, vpin, value)
     ELSE IF k = "MCP23017" THEN MCP23017_write(c, j, vpin, value)
     ELSE IF k = "Analogue" THEN Analogue_write(c, j, vpin, value)
     ELSE c

\* dev->_read(vpin); the base class returns 0.
Dev_read(cx, j, vpin) ==
  LET c == Called(cx, j, 0, "read", vpin, 0)
      k == c.chain[j].kind
  IN IF k = "PCF8574" THEN PCF8574_read(c, j, vpin)
     ELSE IF k = "MCP23017" THEN MCP23017_read(c, j, vpin)
     ELSE IF k = "ArduinoPins" THEN ArduinoPins_read(c, j, vpin)
     ELSE [c EXCEPT !.ret = 0]

\* dev->_configure(vpin, paramCount, params); the base class returns true.
Dev_configure(cx, j, vpin, paramCount, params) ==
  LET c == Called(cx, j, 0, "configure", vpin, paramCount)
  IN IF c.chain[j].kind = "Analogue"
     THEN Analogue_configure(c, j, vpin, paramCount, params)
     ELSE [c EXCEPT !.ret = TRUE]

\* dev->_begin(); the base class does nothing.
Dev_begin(cx, j) ==
  LET c == Called(cx, j, 0, "begin", 0, 0)
      k == c.chain[j].kind
  IN IF k = "PCF8574" THEN PCF8574_begin(c, j)
     ELSE IF k = "MCP23017" THEN MCP23017_begin(c, j)
     ELSE c

\* dev->_loop(currentMicros); the base class does nothing.
Dev_loop(cx, j, currentMicros) ==
  LET c == Called(cx, j, 0, "loop", 0, 0)
      k == c.chain[j].kind
  IN IF k = "PCF8574" THEN PCF8574_loop(c, j, currentMicros)
     ELSE IF k = "Analogue" THEN Analogue_loop(c, j, currentMicros)
     ELSE c

----------------------------------------------------------------------------
\* The static functions of IODevice.

\* addDevice: link at the head of the chain, then initialise.
addDevice_AtTail(cx, newDevice) ==
  Dev_begin([cx EXCEPT !.chain = Append(cx.chain, newDevice)], Len(cx.chain) + 1)
addDevice(cx, newDevice) ==
  Dev_begin([cx EXCEPT !.chain = <<newDevice>> \o cx.chain], 1)

\* remove: unlink the first device that owns vpin and is deletable.
IODevice_remove_AnyOwner(ch, vpin) ==
  LET j == FirstOwnerFrom(ch, 1, vpin)
  IN IF j = 0 THEN ch ELSE SubSeq(ch, 1, j - 1) \o SubSeq(ch, j + 1, Len(ch))
IODevice_remove(ch, vpin) ==
  LET S == {j \in 1..Len(ch) : owns(ch[j], vpin) /\ isDeletable(ch[j])}
      j == CHOOSE x \in S : \A y \in S : x <= y
  IN IF S = {} THEN ch ELSE SubSeq(ch, 1, j - 1) \o SubSeq(ch, j + 1, Len(ch))

IODevice_exists(ch, vpin) == FirstOwnerFrom(ch, 1, vpin) # 0

IODevice_write_Fallthrough(cx, vpin, value) ==
  LET j == FirstOwnerFrom(cx.chain, 1, vpin)
  IN IF j # 0 THEN Dev_write(cx, j, 0, vpin, value)
     ELSE IF cx.chain = <<>> THEN cx
     ELSE Dev_write(cx, Len(cx.chain), 0, vpin, value)
IODevice_write(cx, vpin, value) ==
  LET j == FirstOwnerFrom(cx.chain, 1, vpin)
  IN IF j = 0 THEN cx ELSE Dev_write(cx, j, 0, vpin, value)

IODevice_read(cx, vpin) ==
  LET j == FirstOwnerFrom(cx.chain, 1, vpin)
  IN IF j = 0 THEN [cx EXCEPT !.ret = FALSE]
     ELSE LET c == Dev_read(cx, j, vpin) IN [c EXCEPT !.ret = (c.ret # 0)]

IODevice_configure(cx, vpin, paramCount, params) ==
  LET j == FirstOwnerFrom(cx.chain, 1, vpin)
  IN IF j = 0 THEN [cx EXCEPT !.ret = FALSE]
     ELSE Dev_configure(cx, j, vpin, paramCount, params)

\* loop: every device's _loop in chain order, from position i on.
RECURSIVE IODevice_loopFrom(_, _, _)
IODevice_loopFrom(cx, i, currentMicros) ==
  IF i > Len(cx.chain) THEN cx
  ELSE IODevice_loopFrom(Dev_loop(cx, i, currentMicros), i + 1, currentMicros)

----------------------------------------------------------------------------
\* Device creation.

\* Position of the device with identity id in ch.
PosOf(ch, id) == CHOOSE j \in 1..Len(ch) : ch[j].id = id

NoEnv == [ok |-> TRUE, byte |-> 0]

\* ArduinoPins::create
ArduinoPins_create(ch, id, firstID, nPins) ==
  addDevice(Ctx(ch, NoEnv),
            [NoDevice EXCEPT !.id = id, !.kind = "ArduinoPins",
                             !.firstID = firstID, !.nPins = nPins])

\* PCF8574::createInstance.  variant 1 calls _begin once more after addDevice;
\* its _counterSet is never initialised, counterSet is the value it holds.
PCF8574_createInstance(ch, id, variant, vpin, nPins, I2CAddress, counterSet) ==
  LET n == Min(nPins, 8 * 8)
      cx1 == addDevice(Ctx(ch, NoEnv),
               [NoDevice EXCEPT !.id = id, !.kind = "PCF8574", !.variant = variant,
                                !.firstID = vpin, !.nPins = n,
                                !.nModules = U8((n + 7) \div 8),
                                !.I2CAddress = I2CAddress,
                                !.counterSet = counterSet])
  IN IF variant = 1 THEN Dev_begin(cx1, PosOf(cx1.chain, id)) ELSE cx1

\* MCP23017::createInstance: _nModules is computed from the unclamped nPins.
MCP23017_createInstance(ch, id, firstID, nPins, I2CAddress) ==
  addDevice(Ctx(ch, NoEnv),
            [NoDevice EXCEPT !.id = id, !.kind = "MCP23017",
                             !.firstID = firstID, !.nPins = Min(nPins, 16 * 8),
                             !.nModules = U8((nPins + 15) \div 16),
                             !.I2CAddress = I2CAddress])

\* Analogue::createInstance: the fields it does not assign hold whatever the
\* allocation held (garbage).
Analogue_createInstance_Stacks(ch, id, vpin, garbage) ==
  addDevice(Ctx(ch, NoEnv),
            [NoDevice EXCEPT !.id = id, !.kind = "Analogue",
                             !.firstID = vpin, !.nPins = 1,
                             !.numSteps = 0, !.stepNumber = 0, !.state = -1,
                             !.devicePin = garbage, !.activePosition = garbage,
                             !.inactivePosition = garbage, !.currentPosition = garbage,
                             !.fromPosition = garbage, !.toPosition = garbage,
                             !.profileKind = U8(garbage), !.lastRefreshTime = garbage])
Analogue_createInstance(ch, id, vpin, garbage) ==
  addDevice(Ctx(IODevice_remove(ch, vpin), NoEnv),
            [NoDevice EXCEPT !.id = id, !.kind = "Analogue",
                             !.firstID = vpin, !.nPins = 1,
                             !.numSteps = 0, !.stepNumber = 0, !.state = -1,
                             !.devicePin = garbage, !.activePosition = garbage,
                             !.inactivePosition = garbage, !.currentPosition = garbage,
                             !.fromPosition = garbage, !.toPosition = garbage,
                             !.profileKind = U8(garbage), !.lastRefreshTime = garbage])

\* Analogue::create
Analogue_create(ch, id, vpin, devicePin, activePosition, inactivePosition, prof, initialState, garbage) ==
  LET cx1 == Analogue_createInstance(ch, id, vpin, garbage)
      dev == PosOf(cx1.chain, id)
  IN Analogue_configure5([cx1 EXCEPT !.chain[dev].state = initialState], dev, vpin,
                         devicePin, activePosition, inactivePosition, prof)

----------------------------------------------------------------------------
\* History of the PCF8574 input cache.  cacheAge[id][k + 1] is the number of
\* ticks counted by the device since a read of its pin firstID + k completed
\* a bus read, and -1 when there was none or _write was called for that
\* pin's module since.

NoAges(dev) == IF dev.kind = "PCF8574" THEN [k \in 1..dev.nPins |-> -1] ELSE <<>>

DevById(ch, id) == CHOOSE d \in {ch[j] : j \in 1..Len(ch)} : d.id = id

Present(ch, id) == \E j \in 1..Len(ch) : ch[j].id = id

\* Ticks a PCF8574 counts in one _loop call at time now.
TicksCounted(d, now) ==
  IF ~Gt32(Sub32(now, d.lastLoopEntry), portTickTime) THEN 0
  ELSE IF d.variant = 1 THEN Div32(Sub32(now, d.lastLoopEntry), portTickTime)
  ELSE 1

AgeTicks(age, ch, now) ==
  [id \in 1..Len(age) |->
     IF Present(ch, id) /\ DevById(ch, id).kind = "PCF8574"
     THEN [k \in 1..Len(age[id]) |->
             IF age[id][k] < 0 THEN -1
             ELSE Min(MaxAge, age[id][k] + TicksCounted(DevById(ch, id), now))]
     ELSE age[id]]

RECURSIVE AgeWrites(_, _, _, _)
AgeWrites(age, ch, log, n) ==
  IF n > Len(log) THEN age
  ELSE LET e == log[n]
           d == DevById(ch, e.to)
           hit == e.h = "write" /\ d.kind = "PCF8574"
           m == (e.pin - d.firstID) \div 8
       IN AgeWrites(IF hit
                    THEN [age EXCEPT ![e.to] =
                            [k \in 1..Len(@) |-> IF (k - 1) \div 8 = m THEN -1 ELSE @[k]]]
                    ELSE age,
                    ch, log, n + 1)

AgeRead(age, ch, o, b) ==
  IF o.name = "read" /\ Len(b) > 0 /\ b[Len(b)].rw = "r" /\ b[Len(b)].reg = -1
  THEN [age EXCEPT ![b[Len(b)].dev][o.pin - DevById(ch, b[Len(b)].dev).firstID + 1] = 0]
  ELSE age

AgeStep(age, ch0, cx, o) ==
  LET a1 == IF o.name = "loop" THEN AgeTicks(age, ch0, clock) ELSE age
      a2 == AgeWrites(a1, cx.chain, cx.calls, 1)
  IN AgeRead(a2, cx.chain, o, cx.bus)

\* History of the bus reads of the devices that are followed (those with an
\* entry in r): r[id][m] tells whether module m was read from the bus since
\* _write was last called for it, and the clock at that bus read.
NotRead == [valid |-> FALSE, at |-> Zero32]

ReadAtStep(r, cx) ==
  [id \in 1..Len(r) |->
     [m \in 1..Len(r[id]) |->
        IF \E k \in 1..Len(cx.bus) :
              /\ cx.bus[k].dev = id /\ cx.bus[k].rw = "r"
              /\ cx.bus[k].addr = DevById(cx.chain, id).I2CAddress + m - 1
        THEN [valid |-> TRUE, at |-> cx.clock]
        ELSE IF \E k \in 1..Len(cx.calls) :
                   /\ cx.calls[k].h = "write" /\ cx.calls[k].to = id
                   /\ ((cx.calls[k].pin - DevById(cx.chain, id).firstID) \div 8) + 1 = m
        THEN NotRead
        ELSE r[id][m]]]

\* History of the periodic hooks of the devices that are followed (those
\* with an entry in s): s[id] tells whether the hook of the device has fired
\* in a loop call, that is, stored the time of the call, and how many
\* microseconds of real time have passed since it last did.
NotFired == [valid |-> FALSE, us |-> 0]

\* The time a device's hook stored when it last fired: _lastRefreshTime of an
\* Analogue device, _lastLoopEntry of a PCF8574.
HookTime(d) == IF d.kind = "Analogue" THEN d.lastRefreshTime ELSE d.lastLoopEntry

FiredStep(s, old, cx, o) ==
  [id \in 1..Len(s) |->
     IF o.name = "loop" /\ HookTime(DevById(cx.chain, id)) # HookTime(DevById(old, id))
     THEN [valid |-> TRUE, us |-> 0]
     ELSE s[id]]

----------------------------------------------------------------------------
\* Operations.

NoOp == [name |-> "init", pin |-> 0, value |-> 0, id |-> 0]

Record(cx, o) ==
  /\ chain' = cx.chain
  /\ calls' = cx.calls
  /\ bus' = cx.bus
  /\ ret' = cx.ret
  /\ op' = o
  /\ cacheAge' = AgeStep(cacheAge, chain, cx, o)
  /\ readAt' = ReadAtStep(readAt, cx)
  /\ sinceFired' = FiredStep(sinceFired, chain, cx, o)

\* A creation: cx is what the factory left.
Create(cx, vpin) ==
  LET dev == DevById(cx.chain, nextId)
      o == [name |-> "create", pin |-> vpin, value |-> dev.nPins, id |-> nextId]
  IN /\ budget > 0
     /\ budget' = budget - 1
     /\ nextId' = nextId + 1
     /\ chain' = cx.chain
     /\ calls' = cx.calls
     /\ bus' = cx.bus
     /\ ret' = cx.ret
     /\ op' = o
     /\ created' = Append(created, [id |-> dev.id, kind |-> dev.kind,
                                    firstID |-> dev.firstID, nPins |-> dev.nPins])
     /\ cacheAge' = AgeStep(Append(cacheAge, NoAges(dev)), chain, cx, o)
     /\ readAt' = ReadAtStep(readAt, cx)
     /\ UNCHANGED <<clock, sinceFired>>

CreateArduinoPins(firstID, nPins) ==
  Create(ArduinoPins_create(chain, nextId, firstID, nPins), firstID)

CreatePCF8574(variant, vpin, nPins, I2CAddress, counterSet) ==
  /\ variant = 2 => ~counterSet
  /\ Create(PCF8574_createInstance(chain, nextId, variant, vpin, nPins, I2CAddress,
                                   counterSet), vpin)

CreateMCP23017(firstID, nPins, I2CAddress) ==
  Create(MCP23017_createInstance(chain, nextId, firstID, nPins, I2CAddress), firstID)

CreateAnalogueInstance(vpin, garbage) ==
  Create(Analogue_createInstance(chain, nextId, vpin, garbage), vpin)

CreateAnalogue(vpin, devicePin, activePosition, inactivePosition, prof, initialState, garbage) ==
  Create(Analogue_create(chain, nextId, vpin, devicePin, activePosition,
                         inactivePosition, prof, initialState, garbage), vpin)

\* IODevice::remove
Remove(vpin) ==
  /\ Record([Ctx(chain, NoEnv) EXCEPT !.chain = IODevice_remove(chain, vpin)],
            [name |-> "remove", pin |-> vpin, value |-> 0, id |-> 0])
  /\ UNCHANGED <<nextId, clock, created, budget>>

\* IODevice::exists
Exists(vpin) ==
  /\ Record([Ctx(chain, NoEnv) EXCEPT !.ret = IODevice_exists(chain, vpin)],
            [name |-> "exists", pin |-> vpin, value |-> 0, id |-> 0])
  /\ UNCHANGED <<nextId, clock, created, budget>>

\* IODevice::write
Write(vpin, value) ==
  /\ Record(IODevice_write(Ctx(chain, NoEnv), vpin, value),
            [name |-> "write", pin |-> vpin, value |-> value, id |-> 0])
  /\ UNCHANGED <<nextId, clock, created, budget>>

\* IODevice::write, for as long as the budget of requests lasts.
WriteWithin(vpin, value) ==
  /\ budget > 0
  /\ budget' = budget - 1
  /\ Record(IODevice_write(Ctx(chain, NoEnv), vpin, value),
            [name |-> "write", pin |-> vpin, value |-> value, id |-> 0])
  /\ UNCHANGED <<nextId, clock, created>>

\* IODevice::read; env is what the hardware answers.
Read(vpin, env) ==
  /\ Record(IODevice_read(Ctx(chain, env), vpin),
            [name |-> "read", pin |-> vpin, value |-> 0, id |-> 0])
  /\ UNCHANGED <<nextId, clock, created, budget>>

\* IODevice::configure
Configure(vpin, paramCount, params) ==
  /\ Record(IODevice_configure(Ctx(chain, NoEnv), vpin, paramCount, params),
            [name |-> "configure", pin |-> vpin, value |-> paramCount, id |-> 0,
             params |-> params])
  /\ UNCHANGED <<nextId, clock, created, budget>>

\* IODevice::loop
Loop ==
  /\ Record(IODevice_loopFrom(Ctx(chain, NoEnv), 1, clock),
            [name |-> "loop", pin |-> 0, value |-> 0, id |-> 0])
  /\ UNCHANGED <<nextId, clock, created, budget>>

\* Time passes: micros() advances by delta (and wraps at 32 bits); limit is
\* the last clock value from which the model lets it advance.
Advance(delta, limit) ==
  /\ clock.hi = 0 /\ clock.lo <= limit
  /\ clock' = Add32(clock, delta)
  /\ op' = [name |-> "advance", pin |-> 0, value |-> delta, id |-> 0]
  /\ calls' = <<>>
  /\ bus' = <<>>
  /\ ret' = 0
  /\ UNCHANGED <<chain, nextId, created, cacheAge, budget, readAt, sinceFired>>

\* Time passes, for as long as the upper half of the clock is below limitHi.
Elapse(delta, limitHi) ==
  /\ clock.hi < limitHi
  /\ clock' = Add32(clock, delta)
  /\ op' = [name |-> "advance", pin |-> 0, value |-> delta, id |-> 0]
  /\ calls' = <<>>
  /\ bus' = <<>>
  /\ ret' = 0
  /\ UNCHANGED <<chain, nextId, created, cacheAge, budget, readAt, sinceFired>>

----------------------------------------------------------------------------
\* The registry: devices of every class are created, removed and used.

Pins == {1, 3, 4}
Values == {0, 1}
Garbage == {0, 517}
Replies == {[ok |-> TRUE, byte |-> 254]}
ServoParams == {<<4, 300, 100, Instant>>}
Servos == {<<3, 0>>, <<4, 1>>}
Deltas == {50000}

Init ==
  /\ chain = <<>>
  /\ nextId = 1
  /\ clock = Zero32
  /\ op = NoOp
  /\ ret = 0
  /\ calls = <<>>
  /\ bus = <<>>
  /\ created = <<>>
  /\ cacheAge = <<>>
  /\ readAt = <<>>
  /\ sinceFired = <<>>
  /\ budget = MaxDevices

Creates ==
  \/ CreateArduinoPins(3, 2)
  \/ \E v \in {1, 2}, cs \in BOOLEAN : CreatePCF8574(v, 3, 8, 32, cs)
  \/ CreateMCP23017(4, 16, 36)
  \/ \E a \in Servos, q \in ServoParams, g \in Garbage :
        CreateAnalogue(a[1], q[1], q[2], q[3], q[4], a[2], g)

Next ==
  \/ Creates
  \/ \E p \in Pins : Remove(p)
  \/ \E p \in Pins : Exists(p)
  \/ \E p \in Pins, v \in Values : Write(p, v)
  \/ \E p \in Pins, e \in Replies : Read(p, e)
  \/ \E p \in Pins, q \in ServoParams, n \in {3, 4} : Configure(p, n, q)
  \/ Loop
  \/ \E d \in Deltas : Advance(d, MaxClock)

Spec == Init /\ [][Next]_vars

----------------------------------------------------------------------------
\* The chain alone: creation, removal and lookup with more devices.

InitChain ==
  /\ chain = <<>>
  /\ nextId = 1
  /\ clock = Zero32
  /\ op = NoOp
  /\ ret = 0
  /\ calls = <<>>
  /\ bus = <<>>
  /\ created = <<>>
  /\ cacheAge = <<>>
  /\ readAt = <<>>
  /\ sinceFired = <<>>
  /\ budget = MaxChainDevices

NextChain ==
  \/ Creates
  \/ \E p \in {3, 4}, g \in Garbage : CreateAnalogueInstance(p, g)
  \/ \E p \in Pins : Remove(p)
  \/ \E p \in Pins : Exists(p)

SpecChain == InitChain /\ [][NextChain]_vars

----------------------------------------------------------------------------
\* One PCF8574 of either variant, with two modules, under writes, reads,
\* ticks and time.

PortPins == {100, 101, 108}
PortReplies == {[ok |-> TRUE, byte |-> 1], [ok |-> FALSE, byte |-> 2]}
PortDeltas == {300, 1100}

InitPCF ==
  /\ nextId = 2
  /\ clock = Zero32
  /\ op = NoOp
  /\ ret = 0
  /\ calls = <<>>
  /\ bus = <<>>
  /\ created = <<[id |-> 1, kind |-> "PCF8574", firstID |-> 100, nPins |-> 16]>>
  /\ budget = 0
  /\ readAt = <<>>
  /\ sinceFired = <<>>
  /\ \E v \in {1, 2}, cs \in BOOLEAN :
       LET cx == PCF8574_createInstance(<<>>, 1, v, 100, 16, 32, cs)
       IN /\ v = 2 => ~cs
          /\ chain = cx.chain
          /\ cacheAge = <<NoAges(cx.chain[1])>>

NextPCF ==
  \/ \E p \in PortPins, v \in Values : Write(p, v)
  \/ \E p \in PortPins, e \in PortReplies : Read(p, e)
  \/ Loop
  \/ \E d \in PortDeltas : Advance(d, MaxTickClock)

SpecPCF == InitPCF /\ [][NextPCF]_vars

----------------------------------------------------------------------------
\* One expander of either family, created with a pin count within or beyond
\* what the family supports, then written, read, configured and ticked.

MaxExpClock == 600
ExpNPins == {16, 144}
ExpPins == {100, 163}
ExpDeltas == {600}
PullupRequests == {<<0>>, <<1>>}

InitExp ==
  /\ chain = <<>>
  /\ nextId = 1
  /\ clock = Zero32
  /\ op = NoOp
  /\ ret = 0
  /\ calls = <<>>
  /\ bus = <<>>
  /\ created = <<>>
  /\ cacheAge = <<>>
  /\ readAt = <<>>
  /\ sinceFired = <<>>
  /\ budget = 1

NextExp ==
  \/ \E v \in {1, 2}, n \in ExpNPins, cs \in BOOLEAN : CreatePCF8574(v, 100, n, 32, cs)
  \/ \E n \in ExpNPins : CreateMCP23017(100, n, 32)
  \/ \E p \in ExpPins, v \in Values : Write(p, v)
  \/ \E p \in ExpPins, e \in Replies : Read(p, e)
  \/ \E p \in ExpPins, q \in PullupRequests : Configure(p, 1, q)
  \/ Loop
  \/ \E d \in ExpDeltas : Advance(d, MaxExpClock)

SpecExp == InitExp /\ [][NextExp]_vars

----------------------------------------------------------------------------
\* One Analogue device at pin 100 driving pin 200 of an ArduinoPins device,
\* created either by IODevice::create (createInstance, then _configure with
\* the parameters: the state stays unknown) or by Analogue::create, then
\* written and refreshed.

MaxServoClockHi == 12
MaxServoWrites == 3
ServoPin == 100
DrivenPin == 200
ServoRequests == {<<DrivenPin, 4095, 0, Fast>>, <<DrivenPin, 105, 100, Fast>>}
ServoDeltas == {50000}

InitServo ==
  /\ nextId = 3
  /\ clock = Zero32
  /\ op = NoOp
  /\ ret = 0
  /\ calls = <<>>
  /\ bus = <<>>
  /\ created = <<[id |-> 1, kind |-> "ArduinoPins", firstID |-> DrivenPin, nPins |-> 1],
                 [id |-> 2, kind |-> "Analogue", firstID |-> ServoPin, nPins |-> 1]>>
  /\ budget = MaxServoWrites
  /\ readAt = <<>>
  /\ sinceFired = <<>>
  /\ cacheAge = <<<<>>, <<>>>>
  /\ LET pins == ArduinoPins_create(<<>>, 1, DrivenPin, 1).chain
     IN \/ \E q \in ServoRequests :
             chain = Analogue_configure(Analogue_createInstance(pins, 2, ServoPin, 0), 1,
                                        ServoPin, 4, q).chain
        \/ \E q \in ServoRequests, initialState \in Values :
             chain = Analogue_create(pins, 2, ServoPin, q[1], q[2], q[3], q[4],
                                     initialState, 0).chain

NextServo ==
  \/ \E v \in Values : WriteWithin(ServoPin, v)
  \/ Loop
  \/ \E d \in ServoDeltas : Elapse(d, MaxServoClockHi)

SpecServo == InitServo /\ [][NextServo]_vars

----------------------------------------------------------------------------
\* One Analogue device of each profile, and of a profile value outside the
\* enumeration, made by Analogue::create, then written and refreshed for a
\* few ticks.

MaxProfileClockHi == 3
MaxProfileWrites == 2
ProfileKinds == {Instant, Fast, Medium, Slow, Bounce, 7}

InitProfile ==
  /\ nextId = 3
  /\ clock = Zero32
  /\ op = NoOp
  /\ ret = 0
  /\ calls = <<>>
  /\ bus = <<>>
  /\ created = <<[id |-> 1, kind |-> "ArduinoPins", firstID |-> DrivenPin, nPins |-> 1],
                 [id |-> 2, kind |-> "Analogue", firstID |-> ServoPin, nPins |-> 1]>>
  /\ budget = MaxProfileWrites
  /\ readAt = <<>>
  /\ sinceFired = <<>>
  /\ cacheAge = <<<<>>, <<>>>>
  /\ LET pins == ArduinoPins_create(<<>>, 1, DrivenPin, 1).chain
     IN \E k \in ProfileKinds, initialState \in Values :
          chain = Analogue_create(pins, 2, ServoPin, DrivenPin, 400, 100, k,
                                  initialState, 0).chain

NextProfile ==
  \/ \E v \in Values : WriteWithin(ServoPin, v)
  \/ Loop
  \/ \E d \in ServoDeltas : Elapse(d, MaxProfileClockHi)

SpecProfile == InitProfile /\ [][NextProfile]_vars

----------------------------------------------------------------------------
\* The position function: one Analogue device of any profile between any two
\* of the sampled positions, written at most twice, with updatePosition
\* applied as _loop applies it at each refresh.

MaxStepWrites == 2
PosSamples == {0, 1, 100, 105, 2047, 4095}

\* Analogue::updatePosition, called by _loop when a refresh is due.
Refresh ==
  /\ Record(Analogue_updatePosition(Ctx(chain, NoEnv), PosOf(chain, 2)),
            [name |-> "updatePosition", pin |-> ServoPin, value |-> 0, id |-> 2])
  /\ UNCHANGED <<nextId, clock, created, budget>>

InitSteps ==
  /\ nextId = 3
  /\ clock = Zero32
  /\ op = NoOp
  /\ ret = 0
  /\ calls = <<>>
  /\ bus = <<>>
  /\ created = <<[id |-> 1, kind |-> "ArduinoPins", firstID |-> DrivenPin, nPins |-> 1],
                 [id |-> 2, kind |-> "Analogue", firstID |-> ServoPin, nPins |-> 1]>>
  /\ budget = MaxStepWrites
  /\ readAt = <<>>
  /\ sinceFired = <<>>
  /\ cacheAge = <<<<>>, <<>>>>
  /\ LET pins == ArduinoPins_create(<<>>, 1, DrivenPin, 1).chain
     IN \E k \in ProfileKinds, a \in PosSamples, b \in PosSamples, initialState \in Values :
          chain = Analogue_create(pins, 2, ServoPin, DrivenPin, a, b, k,
                                  initialState, 0).chain

NextSteps ==
  \/ \E v \in Values : WriteWithin(ServoPin, v)
  \/ Refresh

SpecSteps == InitSteps /\ [][NextSteps]_vars

\* Time passes between two loop calls, until micros() has reached past;
\* micros() wraps at 32 bits, and the comparison with past follows it round.
Turn(delta, past) ==
  /\ op.name \in {"init", "loop"}
  /\ Sub32(past, clock).hi < 32768
  /\ clock' = Add32(clock, delta)
  /\ op' = [name |-> "advance", pin |-> 0, value |-> delta, id |-> 0]
  /\ calls' = <<>>
  /\ bus' = <<>>
  /\ ret' = 0
  /\ sinceFired' = [id \in 1..Len(sinceFired) |->
                      IF sinceFired[id].valid
                      THEN [sinceFired[id] EXCEPT !.us = @ + delta]
                      ELSE sinceFired[id]]
  /\ UNCHANGED <<chain, nextId, created, cacheAge, budget, readAt>>

----------------------------------------------------------------------------
\* One Analogue device made by Analogue::create, written, refreshed and
\* configured again through the dispatcher, with four parameters or three.

MaxReconfClockHi == 3
MaxReconfWrites == 2

InitReconf ==
  /\ nextId = 3
  /\ clock = Zero32
  /\ op = NoOp
  /\ ret = 0
  /\ calls = <<>>
  /\ bus = <<>>
  /\ created = <<[id |-> 1, kind |-> "ArduinoPins", firstID |-> DrivenPin, nPins |-> 1],
                 [id |-> 2, kind |-> "Analogue", firstID |-> ServoPin, nPins |-> 1]>>
  /\ budget = MaxReconfWrites
  /\ readAt = <<>>
  /\ sinceFired = <<>>
  /\ cacheAge = <<<<>>, <<>>>>
  /\ LET pins == ArduinoPins_create(<<>>, 1, DrivenPin, 1).chain
     IN \E q \in ServoRequests, initialState \in Values :
          chain = Analogue_create(pins, 2, ServoPin, q[1], q[2], q[3], q[4],
                                  initialState, 0).chain

NextReconf ==
  \/ \E v \in Values : WriteWithin(ServoPin, v)
  \/ \E q \in ServoRequests, n \in {3, 4} : Configure(ServoPin, n, q)
  \/ Loop
  \/ \E d \in ServoDeltas : Elapse(d, MaxReconfClockHi)

SpecReconf == InitReconf /\ [][NextReconf]_vars

----------------------------------------------------------------------------
\* The two periodic hooks while micros() wraps: one PCF8574 of either source
\* and one Analogue device, with loop called at least once between any two
\* advances of the clock, which starts at 0 or 200 microseconds before 2^32.

WrapPort == 300
WrapStarts == {Zero32, [hi |-> 65535, lo |-> 65336]}
WrapTickDeltas == {300}
WrapTickPast == [hi |-> 0, lo |-> 1000]
WrapDeltas == {49999, 50000}
WrapPast == [hi |-> 3, lo |-> 0]

InitWrap ==
  /\ nextId = 3
  /\ clock \in WrapStarts
  /\ op = NoOp
  /\ ret = 0
  /\ calls = <<>>
  /\ bus = <<>>
  /\ created = <<[id |-> 1, kind |-> "PCF8574", firstID |-> WrapPort, nPins |-> 8],
                 [id |-> 2, kind |-> "Analogue", firstID |-> ServoPin, nPins |-> 1]>>
  /\ budget = 0
  /\ readAt = <<>>
  /\ sinceFired = <<NotFired, NotFired>>
  /\ \E v \in {1, 2}, initialState \in Values :
       LET port == PCF8574_createInstance(<<>>, 1, v, WrapPort, 8, 32, v = 1).chain
       IN /\ chain = Analogue_create(port, 2, ServoPin, DrivenPin, 400, 100, Fast,
                                     initialState, 0).chain
          /\ cacheAge = <<NoAges(port[1]), <<>>>>

NextWrap ==
  \/ \E e \in Replies : Read(WrapPort, e)
  \/ Loop
  \/ \E d \in WrapTickDeltas : Turn(d, WrapTickPast)
  \/ \E d \in WrapDeltas : Turn(d, WrapPast)

SpecWrap == InitWrap /\ [][NextWrap]_vars

----------------------------------------------------------------------------
\* An Analogue device written in the first 65 ms of the clock and then left
\* to the loop hook, which is called for ever with an advancing clock. Only
\* the low half of micros() is followed once it has wrapped: _loop reads
\* nothing else, and _write, which reads millis(), is called before that.

MaxIdleWrites == 2
IdleDeltas == {8192, 49152}

\* Time passes between two loop calls; the upper half of the clock counts no
\* further than 1.
Tock(delta) ==
  /\ op.name # "advance"
  /\ clock' = [hi |-> Min(1, clock.hi + ((clock.lo + delta) \div 65536)),
               lo |-> U16(clock.lo + delta)]
  /\ op' = [name |-> "advance", pin |-> 0, value |-> delta, id |-> 0]
  /\ calls' = <<>>
  /\ bus' = <<>>
  /\ ret' = 0
  /\ UNCHANGED <<chain, nextId, created, cacheAge, budget, readAt, sinceFired>>

InitIdle ==
  /\ nextId = 3
  /\ clock = Zero32
  /\ op = NoOp
  /\ ret = 0
  /\ calls = <<>>
  /\ bus = <<>>
  /\ created = <<[id |-> 1, kind |-> "ArduinoPins", firstID |-> DrivenPin, nPins |-> 1],
                 [id |-> 2, kind |-> "Analogue", firstID |-> ServoPin, nPins |-> 1]>>
  /\ budget = MaxIdleWrites
  /\ readAt = <<>>
  /\ sinceFired = <<>>
  /\ cacheAge = <<<<>>, <<>>>>
  /\ LET pins == ArduinoPins_create(<<>>, 1, DrivenPin, 1).chain
     IN \E q \in ServoRequests, initialState \in Values :
          chain = Analogue_create(pins, 2, ServoPin, q[1], q[2], q[3], q[4],
                                  initialState, 0).chain

TimePasses == \E d \in IdleDeltas : Tock(d)

NextIdle ==
  \/ \E v \in Values : clock.hi = 0 /\ WriteWithin(ServoPin, v)
  \/ Loop
  \/ TimePasses

\* A step is a call of IODevice::loop: no other operation records this.
LoopCalled == op' = [name |-> "loop", pin |-> 0, value |-> 0, id |-> 0]

\* IODevice::loop is called from the sketch's loop() for ever, and micros()
\* advances between the calls.
SpecIdle == InitIdle /\ [][NextIdle]_vars /\ WF_op(LoopCalled) /\ WF_vars(TimePasses)

----------------------------------------------------------------------------
\* The ownership test: one device anywhere in the pin space, looked up at
\* pins below, inside and above its range.

OwnsFirstIDs == {0, 3, 65530, VPIN_MAX}
OwnsNPins == {1, 2, 10}
OwnsPins == {0, 1, 2, 3, 4, 9, 10, 12, 65529, 65530, 65531, 65532, VPIN_MAX, VPIN_NONE}

InitOwns ==
  /\ nextId = 2
  /\ clock = Zero32
  /\ op = NoOp
  /\ ret = 0
  /\ calls = <<>>
  /\ bus = <<>>
  /\ budget = 0
  /\ readAt = <<>>
  /\ sinceFired = <<>>
  /\ \E f \in OwnsFirstIDs, n \in OwnsNPins :
       LET cx == ArduinoPins_create(<<>>, 1, f, n)
       IN /\ chain = cx.chain
          /\ created = <<[id |-> 1, kind |-> "ArduinoPins", firstID |-> f, nPins |-> n]>>
          /\ cacheAge = <<NoAges(cx.chain[1])>>

NextOwns ==
  \/ \E p \in OwnsPins : Exists(p)
  \/ \E p \in OwnsPins, v \in Values : Write(p, v)
  \/ \E p \in OwnsPins, e \in Replies : Read(p, e)

SpecOwns == InitOwns /\ [][NextOwns]_vars

----------------------------------------------------------------------------
\* One single-module PCF8574 of either variant under a clock that advances
\* in quarter and half tick intervals; its bus reads are followed.

DecayPins == {100, 101}
DecayDeltas == {250, 500}

InitDecay ==
  /\ nextId = 2
  /\ clock = Zero32
  /\ op = NoOp
  /\ ret = 0
  /\ calls = <<>>
  /\ bus = <<>>
  /\ created = <<[id |-> 1, kind |-> "PCF8574", firstID |-> 100, nPins |-> 8]>>
  /\ budget = 0
  /\ readAt = <<<<NotRead>>>>
  /\ sinceFired = <<>>
  /\ \E v \in {1, 2}, cs \in BOOLEAN :
       LET cx == PCF8574_createInstance(<<>>, 1, v, 100, 8, 32, cs)
       IN /\ v = 2 => ~cs
          /\ chain = cx.chain
          /\ cacheAge = <<NoAges(cx.chain[1])>>

NextDecay ==
  \/ \E p \in DecayPins, v \in Values : Write(p, v)
  \/ \E p \in DecayPins, e \in Replies : Read(p, e)
  \/ Loop
  \/ \E d \in DecayDeltas : Advance(d, MaxDecayClock)

SpecDecay == InitDecay /\ [][NextDecay]_vars

----------------------------------------------------------------------------
\* Properties of the registry and dispatcher.

\* p lies in [firstID, firstID + nPins), in unbounded arithmetic.
InRange(d, p) == d.firstID <= p /\ p < d.firstID + d.nPins

\* Positions of the devices of ch whose range contains p.
OwnersOf(ch, p) == {j \in 1..Len(ch) : InRange(ch[j], p)}

Dispatched == op.name \in {"write", "read", "configure"}

\* C1 as stated: write, read and configure invoke the handler of the first
\* device in chain order whose range contains the pin, and the handler of no
\* other device.
C1_Original ==
  Dispatched =>
    IF OwnersOf(chain, op.pin) = {} THEN calls = <<>>
    ELSE /\ Len(calls) = 1
         /\ calls[1].h = op.name
         /\ PosOf(chain, calls[1].to) \in OwnersOf(chain, op.pin)
         /\ \A j \in OwnersOf(chain, op.pin) : PosOf(chain, calls[1].to) <= j

\* C1 (amended): write, read and configure themselves invoke exactly one
\* handler, that of the first device in chain order whose range contains the
\* pin, with the pin of the call.  Every other handler that runs during the
\* call is a write handler invoked by the handler that ran just before it,
\* through writeDownstream, on a device later in the chain.
C1_FirstOwnerOnly ==
  Dispatched =>
    IF OwnersOf(chain, op.pin) = {} THEN calls = <<>>
    ELSE /\ calls # <<>>
         /\ calls[1].by = 0 /\ calls[1].h = op.name /\ calls[1].pin = op.pin
         /\ PosOf(chain, calls[1].to) \in OwnersOf(chain, op.pin)
         /\ \A j \in OwnersOf(chain, op.pin) : PosOf(chain, calls[1].to) <= j
         /\ \A k \in 2..Len(calls) :
              /\ calls[k].by = calls[k - 1].to
              /\ calls[k].h = "write"
              /\ PosOf(chain, calls[k].to) > PosOf(chain, calls[k].by)

\* A write reached the first of two owners of its pin, whose handler wrote
\* downstream to the second.
C1_Witness ==
  /\ op.name = "write"
  /\ Cardinality(OwnersOf(chain, op.pin)) = 2
  /\ Len(calls) = 2
  /\ calls[1].by = 0
  /\ calls[2].by = calls[1].to

\* Creations, in order, of the devices whose range contains p.
CreatedOwners(p) == {k \in 1..Len(created) : InRange(created[k], p)}

Latest(S) == CHOOSE k \in S : \A x \in S : x <= k

\* The handler the dispatcher itself invoked is that of device id.
ResolvedTo(id) == calls # <<>> /\ calls[1].by = 0 /\ calls[1].to = id

\* C2 as stated: with A and then B created on overlapping ranges and B
\* removable, write, read and configure on a pin of the overlap resolve to B
\* while B is linked, and to A once B has been removed.
C2_Original ==
  (Dispatched /\ Cardinality(CreatedOwners(op.pin)) >= 2) =>
    LET H == CreatedOwners(op.pin)
        B == created[Latest(H)]
        A == created[Latest(H \ {Latest(H)})]
    IN isDeletable(B) =>
         IF Present(chain, B.id) THEN ResolvedTo(B.id) ELSE ResolvedTo(A.id)

\* C2 (amended): with A and then B created on overlapping ranges and B
\* removable, write, read and configure on a pin of the overlap resolve to B
\* while B is linked; once B has been removed they resolve to A provided A
\* is not removable (a removable A on B's pin is deleted by B's creation).
C2_ShadowUntilRemoved ==
  (Dispatched /\ Cardinality(CreatedOwners(op.pin)) >= 2) =>
    LET H == CreatedOwners(op.pin)
        B == created[Latest(H)]
        A == created[Latest(H \ {Latest(H)})]
    IN isDeletable(B) =>
         IF Present(chain, B.id) THEN ResolvedTo(B.id)
         ELSE ~isDeletable(A) => ResolvedTo(A.id)

\* B shadowed a permanent device A, was removed, and a call on the shared pin
\* reached A.
C2_Witness ==
  /\ Dispatched
  /\ Cardinality(CreatedOwners(op.pin)) = 2
  /\ isDeletable(created[Latest(CreatedOwners(op.pin))])
  /\ ~Present(chain, created[Latest(CreatedOwners(op.pin))].id)
  /\ ~isDeletable(created[1])
  /\ ResolvedTo(created[1].id)

\* C3: for a pin no device owns, read, configure and exists return false and
\* write changes nothing; none of them invokes a handler, touches the bus or
\* changes the chain.
C3_UnownedPin ==
  [][(op'.name \in {"write", "read", "configure", "exists"}
        /\ \A j \in 1..Len(chain) : ~owns(chain[j], op'.pin))
       => /\ chain' = chain
          /\ calls' = <<>>
          /\ bus' = <<>>
          /\ (op'.name # "write" => ret' = FALSE)]_vars

\* A write to a pin that none of the linked devices owns has taken place.
C3_Witness ==
  /\ op.name = "write"
  /\ Len(chain) = 2
  /\ \A j \in 1..Len(chain) : ~owns(chain[j], op.pin)
  /\ calls = <<>>

Permanent(d) == d.kind \in {"ArduinoPins", "PCA9685", "PCF8574", "MCP23017"}

\* C5: a device of a class that reports itself non-removable stays linked
\* whatever is called afterwards, every pin of its range stays owned, and
\* exists answers true for it.
C5_PermanentStays ==
  \A k \in 1..Len(created) :
    Permanent(created[k]) =>
      /\ Present(chain, created[k].id)
      /\ \A p \in created[k].firstID..(created[k].firstID + created[k].nPins - 1) :
           \E j \in 1..Len(chain) : owns(chain[j], p)
      /\ (op.name = "exists" /\ InRange(created[k], op.pin)) => ret = TRUE

\* remove was called on a pin owned only by a permanent device, which is
\* still linked.
C5_Witness ==
  /\ op.name = "remove"
  /\ Len(chain) = Len(created)
  /\ \E j \in 1..Len(chain) : Permanent(chain[j]) /\ InRange(chain[j], op.pin)

\* C6: remove(pin) unlinks the first device in chain order that owns pin and
\* is removable, passing over permanent owners before it, and nothing else;
\* without such a device the chain is unchanged.  The other devices keep
\* their order and their state.
C6_RemoveOne ==
  [][op'.name = "remove" =>
       LET S == {j \in 1..Len(chain) :
                   InRange(chain[j], op'.pin) /\ ~Permanent(chain[j])}
           j == CHOOSE x \in S : \A y \in S : x <= y
       IN IF S = {} THEN chain' = chain
          ELSE chain' = [i \in 1..(Len(chain) - 1) |->
                           IF i < j THEN chain[i] ELSE chain[i + 1]]]_vars

\* remove passed over the permanent owner at the head and unlinked the
\* removable owner behind it, leaving the device after that in place.
C6_Witness ==
  /\ op.name = "remove"
  /\ Len(created) = 3
  /\ Len(chain) = 2
  /\ Permanent(chain[1]) /\ InRange(chain[1], op.pin)
  /\ \E k \in 1..Len(created) :
       /\ ~Present(chain, created[k].id)
       /\ InRange(created[k], op.pin)
       /\ created[k].id < chain[1].id
       /\ created[k].id > chain[2].id

\* C7 as stated: a creation links the new device at the head of the chain
\* and then runs its initialisation hook, exactly once, with the device
\* already at the head.
C7_Claim ==
  op.name = "create" =>
    /\ chain[1].id = op.id
    /\ Cardinality({k \in 1..Len(calls) : calls[k].h = "begin"}) = 1
    /\ \A k \in 1..Len(calls) :
         calls[k].h = "begin" => calls[k].to = op.id /\ calls[k].head = op.id

\* C8 as stated: a device owns exactly the pins p with
\* firstID <= p < firstID + nPins, also when firstID + nPins exceeds 65535.
C8_Claim ==
  /\ op.name = "exists" => ret = InRange(chain[1], op.pin)
  /\ op.name \in {"write", "read"} => ((calls # <<>>) = InRange(chain[1], op.pin))

----------------------------------------------------------------------------
\* Properties of the PCF8574 input cache (one device, at the head).

\* Module (from 1) and bit of pin p of device d.
ModuleOf(d, p) == ((p - d.firstID) \div 8) + 1
BitOf(d, p) == (p - d.firstID) % 8

\* C9: write(pin, v) leaves the freshness counter of the pin's module at 0,
\* and a read of any pin of that module that follows it directly performs a
\* bus read of that module and answers from the byte just read.
C9_WriteInvalidates ==
  [][/\ op'.name = "write" =>
          chain'[1].portCounter[ModuleOf(chain[1], op'.pin)] = 0
     /\ (op.name = "write" /\ op'.name = "read"
           /\ ModuleOf(chain[1], op.pin) = ModuleOf(chain[1], op'.pin))
        => /\ Len(bus') = 1
           /\ bus'[1].rw = "r"
           /\ bus'[1].addr = chain[1].I2CAddress + ModuleOf(chain[1], op'.pin) - 1
           /\ chain'[1].portCounter[ModuleOf(chain[1], op'.pin)]
                = minTicksBetweenPortReads
           /\ ret' = TestBit(chain'[1].portInputState[ModuleOf(chain[1], op'.pin)],
                             BitOf(chain[1], op'.pin))]_vars

\* A write has reset the counter of a module one of whose other pins had
\* been read and was being served from the cache.
C9_Witness ==
  /\ op.name = "write"
  /\ op.pin = 100
  /\ chain[1].portCounter[1] = 0
  /\ TestBit(chain[1].portOutputState[1], 1)
  /\ cacheAge[1][2] = -1
  /\ chain[1].portCounter[2] > 0

\* A read of pin p that finds the cache of p younger than limit ticks does
\* no bus transaction and returns the cached bit.
CachedWithin(limit) ==
  \A p \in PortPins :
    (op'.name = "read" /\ op'.pin = p
       /\ cacheAge[1][p - chain[1].firstID + 1] >= 0
       /\ cacheAge[1][p - chain[1].firstID + 1] <= limit)
    => /\ bus' = <<>>
       /\ ret' = TestBit(chain[1].portInputState[ModuleOf(chain[1], p)],
                         BitOf(chain[1], p))
       /\ chain' = chain

\* C10 as stated: once a read of a pin has completed a bus read, further
\* reads of that pin do no bus transaction and return the cached bit while
\* no write to the module intervenes and no more than
\* minTicksBetweenPortReads ticks were counted since the bus read.
C10_Original == [][CachedWithin(minTicksBetweenPortReads)]_vars

\* C10 (amended): once a read of a pin has completed a bus read, further
\* reads of that pin do no bus transaction and return the cached bit while
\* no write to the module intervenes and fewer than
\* minTicksBetweenPortReads ticks were counted since the bus read.
C10_CachedReads == [][CachedWithin(minTicksBetweenPortReads - 1)]_vars

\* A read was served from the cache one tick after the bus read that filled it.
C10_Witness ==
  /\ op.name = "read"
  /\ bus = <<>>
  /\ cacheAge[1][op.pin - chain[1].firstID + 1] = 1
  /\ chain[1].portCounter[ModuleOf(chain[1], op.pin)] = 1
  /\ ret = TRUE

\* Ages of the cached reads of the pins of module m of the device at the head.
AgesOf(m) ==
  {cacheAge[1][k] : k \in {x \in 1..Len(cacheAge[1]) :
                             (x - 1) \div 8 = m - 1 /\ cacheAge[1][x] >= 0}}

\* The read of the next step makes exactly one bus transaction, a read of
\* the module of its pin.
FreshRead ==
  /\ Len(bus') = 1
  /\ bus'[1].rw = "r"
  /\ bus'[1].addr = chain[1].I2CAddress + ModuleOf(chain[1], op'.pin) - 1

\* C11 as stated: when more than minTicksBetweenPortReads tick intervals of
\* time have passed since a bus read of a module, no write to the module
\* came in between and the loop hook has been called, the next read of a pin
\* of the module performs a bus read.
C11_Original ==
  [][(/\ op.name = "loop"
      /\ op'.name = "read"
      /\ readAt[1][ModuleOf(chain[1], op'.pin)].valid
      /\ Gt32(Sub32(clock, readAt[1][ModuleOf(chain[1], op'.pin)].at),
              minTicksBetweenPortReads * portTickTime))
     => FreshRead]_vars

\* C11 (amended): when the loop hook has counted minTicksBetweenPortReads or
\* more ticks since the last bus read of a module and no write to the module
\* came in between, the next read of a pin of the module performs a bus read.
C11_FreshAfterTicks ==
  [][(/\ op'.name = "read"
      /\ AgesOf(ModuleOf(chain[1], op'.pin)) # {}
      /\ \A a \in AgesOf(ModuleOf(chain[1], op'.pin)) : a >= minTicksBetweenPortReads)
     => FreshRead]_vars

\* The loop hook has counted the cache of a module out: two ticks or more
\* since its bus read, no write since, the pin still released for reading.
C11_Witness ==
  /\ op.name = "loop"
  /\ readAt[1][1].valid
  /\ AgesOf(1) # {}
  /\ \A a \in AgesOf(1) : a >= minTicksBetweenPortReads
  /\ chain[1].portCounter[1] = 0
  /\ TestBit(chain[1].portOutputState[1], 0)

\* Microseconds since the loop hook of the head device last counted a tick.
SinceTick == Sub32(clock, chain[1].lastLoopEntry)

C13_Claim ==
  [][op'.name = "read" =>
       LET m == ModuleOf(chain[1], op'.pin)
       IN /\ (bus' # <<>> /\ ~bus'[1].ok)
               => (chain'[1].portInputState[m] = 0 /\ ret' = FALSE)
          /\ (bus' = <<>> /\ chain[1].portInputState[m] = 0)
               => (chain'[1].portInputState[m] = 0 /\ ret' = FALSE)]_vars

\* C14 as stated: after a read whose bus read failed, the freshness counter
\* of the module is 0, and a read of a pin of that module that follows it
\* directly performs a bus read.
C14_Claim ==
  [][/\ (op'.name = "read" /\ bus' # <<>> /\ ~bus'[1].ok)
          => chain'[1].portCounter[ModuleOf(chain[1], op'.pin)] = 0
     /\ (/\ op.name = "read" /\ bus # <<>> /\ ~bus[1].ok
         /\ op'.name = "read"
         /\ ModuleOf(chain[1], op'.pin) = ModuleOf(chain[1], op.pin))
          => FreshRead]_vars

\* The device answering a request for pin p: the first owner in the chain.
OwnerOf(p) == FirstOwnerFrom(chain, 1, p)

\* C15 as stated: configure on a pin owned by an expander returns true for a
\* pull-up request and false for a request without pull-up, and a rejected
\* request leaves every device as it was.
C15_Claim ==
  [][(/\ op'.name = "configure"
      /\ OwnerOf(op'.pin) # 0
      /\ chain[OwnerOf(op'.pin)].kind \in {"PCF8574", "MCP23017"})
       => /\ ret' = PCF8574_configure(op'.pin, op'.params[1] # 0)
          /\ ret' = FALSE => chain' = chain]_vars

PinsPerModule(d) == IF d.kind = "MCP23017" THEN 16 ELSE 8
MaxModulesOf(d) == IF d.kind = "MCP23017" THEN MCP23017_maxModules ELSE PCF8574_maxModules

\* C16 as stated: every PCF8574 and MCP23017 in the chain has at most 8
\* modules and at most 8 modules' worth of pins, and every bus transaction
\* of the device addresses a module with index below 8.
C16_Claim ==
  \A i \in 1..Len(chain) :
    chain[i].kind \in {"PCF8574", "MCP23017"} =>
      /\ chain[i].nModules <= MaxModulesOf(chain[i])
      /\ chain[i].nPins <= MaxModulesOf(chain[i]) * PinsPerModule(chain[i])
      /\ \A k \in 1..Len(bus) :
           bus[k].dev = chain[i].id =>
             bus[k].addr - chain[i].I2CAddress < MaxModulesOf(chain[i])

\* The Analogue device of SpecServo, before and after the step.
Servo == DevById(chain, 2)
ServoNext == DevById(chain', 2)

\* The position the device holds for logical state v.
ExtremeOf(d, v) == IF v # 0 THEN d.activePosition ELSE d.inactivePosition

\* C17 as stated: the first write(pin, v) to an Analogue device whose state
\* is unknown (-1) sets its state to v and its current position to the
\* extreme of v: the active position for v # 0, the inactive one for v = 0.
C17_Claim ==
  [][(op'.name = "write" /\ Servo.state = -1)
       => /\ ServoNext.state = op'.value
          /\ ServoNext.currentPosition = ExtremeOf(Servo, op'.value)]_vars

\* C18: a write to an Analogue device of the value its state already has
\* changes nothing in the device (state, positions, step counters, refresh
\* time) or in any other device, and writes nothing downstream, whether the
\* device is idle or in the middle of a movement.
C18_SameValueNoOp ==
  [][(op'.name = "write" /\ op'.pin = ServoPin /\ Servo.state = op'.value)
       => /\ chain' = chain
          /\ Len(calls') = 1
          /\ calls'[1].to = 2 /\ calls'[1].by = 0]_vars

\* A write of the value already held has just been made in the middle of a
\* movement: the only call is the one of the dispatcher.
C18_Witness ==
  /\ op.name = "write" /\ op.value = Servo.state
  /\ Len(calls) = 1
  /\ Servo.numSteps = 10
  /\ Servo.stepNumber > 1 /\ Servo.stepNumber < Servo.numSteps
  /\ Servo.currentPosition # Servo.toPosition

\* The calls one step made on behalf of the Analogue device: its downstream
\* writes.
Driven(log) == SelectSeq(log, LAMBDA e : e.by = 2)

\* The next step is a write of the other value to the device in a known
\* state: a movement starts.
StartsMove ==
  /\ op'.name = "write" /\ op'.pin = ServoPin
  /\ Servo.state \in {0, 1} /\ op'.value # Servo.state

\* The next step is a loop call in which the device refreshes.
RefreshTick ==
  /\ op'.name = "loop"
  /\ U16(clock.lo - Servo.lastRefreshTime) >= refreshInterval * 1000

ContinuesMove == RefreshTick /\ Servo.stepNumber < Servo.numSteps

Towards(from, to, a, b) == (to > from => b > a) /\ (to < from => b < a)

\* C19 as stated: with the Fast profile each of the 10 steps of a movement
\* (the write and the 9 refreshes after it) writes one position downstream,
\* each strictly nearer the target than the one before, the last one the
\* target, whatever the two distinct positions are.
C19_Original ==
  [][(Servo.profileKind = Fast /\ (StartsMove \/ ContinuesMove))
       => LET n == ServoNext.stepNumber
              from == ServoNext.fromPosition
              to == ServoNext.toPosition
          IN /\ ServoNext.numSteps = 10
             /\ n = (IF StartsMove THEN 1 ELSE Servo.stepNumber + 1)
             /\ Len(Driven(calls')) = 1
             /\ Driven(calls')[1].pin = DrivenPin
             /\ Driven(calls')[1].value = ServoNext.currentPosition
             /\ Towards(from, to, Servo.currentPosition, ServoNext.currentPosition)
             /\ n = 10 => ServoNext.currentPosition = to]_vars

\* C19, amended: with the Fast profile each of the 10 steps of a movement
\* writes one position downstream, the k-th being
\* from + trunc(k * (to - from) / 10); the values never move away from the
\* target, the last one is the target, and they are strictly monotonic when
\* the two positions are at least 10 apart.
C19_FastMove ==
  [][(Servo.profileKind = Fast /\ (StartsMove \/ ContinuesMove))
       => LET n == ServoNext.stepNumber
              from == ServoNext.fromPosition
              to == ServoNext.toPosition
          IN /\ ServoNext.numSteps = 10
             /\ n = (IF StartsMove THEN 1 ELSE Servo.stepNumber + 1)
             /\ StartsMove => /\ from = Servo.currentPosition
                              /\ to = ExtremeOf(Servo, op'.value)
             /\ ServoNext.currentPosition = from + CDiv(n * (to - from), 10)
             /\ Len(Driven(calls')) = 1
             /\ Driven(calls')[1].pin = DrivenPin
             /\ Driven(calls')[1].value = ServoNext.currentPosition
             /\ to >= from => ServoNext.currentPosition >= Servo.currentPosition
             /\ to <= from => ServoNext.currentPosition <= Servo.currentPosition
             /\ (to - from >= 10 \/ from - to >= 10)
                  => Towards(from, to, Servo.currentPosition, ServoNext.currentPosition)
             /\ n = 10 => ServoNext.currentPosition = to]_vars

\* The tenth step of a movement from the inactive to the active position
\* has just been made by a refresh.
C19_Witness ==
  /\ op.name = "loop"
  /\ Servo.profileKind = Fast /\ Servo.state = 1
  /\ Servo.numSteps = 10 /\ Servo.stepNumber = 10
  /\ Servo.fromPosition = Servo.inactivePosition
  /\ Servo.toPosition = Servo.activePosition
  /\ Servo.fromPosition # Servo.toPosition
  /\ Servo.currentPosition = Servo.toPosition
  /\ Len(Driven(calls)) = 1

\* The device as the step leaves it, but for its refresh time.
SameButRefresh(d) == [ServoNext EXCEPT !.lastRefreshTime = d.lastRefreshTime] = d

Between(a, x, b) == (a <= x /\ x <= b) \/ (b <= x /\ x <= a)

\* C21: a write of the opposite value to an Analogue device in the middle of
\* a movement (stepNumber < numSteps) restarts the movement from the position
\* reached so far: fromPosition becomes that position, toPosition the extreme
\* of the new value, the step count starts again (the write makes step 1),
\* and the position the write pushes downstream lies between the two.
C21_Retrigger ==
  [][(StartsMove /\ Servo.stepNumber < Servo.numSteps)
       => /\ ServoNext.fromPosition = Servo.currentPosition
          /\ ServoNext.toPosition = ExtremeOf(Servo, op'.value)
          /\ ServoNext.state = op'.value
          /\ ServoNext.stepNumber = 1
          /\ Len(Driven(calls')) = 1
          /\ Driven(calls')[1].pin = DrivenPin
          /\ Driven(calls')[1].value = ServoNext.currentPosition
          /\ Between(Servo.currentPosition, ServoNext.currentPosition,
                     ServoNext.toPosition)]_vars

\* A write has just restarted a movement from a position that is neither
\* extreme.
C21_Witness ==
  /\ op.name = "write"
  /\ Servo.numSteps = 10 /\ Servo.stepNumber = 1
  /\ Servo.fromPosition \notin {Servo.activePosition, Servo.inactivePosition}
  /\ Servo.toPosition = ExtremeOf(Servo, Servo.state)
  /\ Servo.currentPosition # Servo.fromPosition
  /\ Len(Driven(calls)) = 1

\* C22 as stated: a loop call made before a refresh interval has passed since
\* the previous position update changes nothing; here the loop call follows
\* the write that started a movement, or another loop call, with no time
\* passing in between.
C22_Claim ==
  [][(/\ op'.name = "loop"
      /\ \/ op.name = "write" /\ Servo.stepNumber = 1 /\ Len(Driven(calls)) = 1
         \/ op.name = "loop")
       => (chain' = chain /\ Driven(calls') = <<>>)]_vars

\* The step makes a bus read of module m of the device at the head.
BusReadOf(m) ==
  \E k \in 1..Len(bus') : /\ bus'[k].dev = chain[1].id /\ bus'[k].rw = "r"
                          /\ bus'[k].addr = chain[1].I2CAddress + m - 1

\* C23: for every module of a PCF8574, while its freshness counter is above
\* 0 there is a bus read of the module with no write to the module since,
\* made at most minTicksBetweenPortReads counted ticks ago (the counter is
\* what is left of them); the input shadow changes only in a step that makes
\* a bus read of the module, and the output shadow only in a write, which
\* leaves the counter at 0, or in a read that makes a bus read and arms the
\* counter afresh.
C23_FreshShadow ==
  /\ [](\A m \in 1..chain[1].nModules :
          chain[1].portCounter[m] > 0
            => \E a \in AgesOf(m) : a + chain[1].portCounter[m] <= minTicksBetweenPortReads)
  /\ [][\A m \in 1..chain[1].nModules :
          /\ chain'[1].portInputState[m] # chain[1].portInputState[m] => BusReadOf(m)
          /\ chain'[1].portOutputState[m] # chain[1].portOutputState[m]
               => \/ op'.name = "write" /\ chain'[1].portCounter[m] = 0
                  \/ /\ op'.name = "read" /\ BusReadOf(m)
                     /\ chain'[1].portCounter[m] = minTicksBetweenPortReads
                     /\ cacheAge'[1][op'.pin - chain[1].firstID + 1] = 0]_vars

\* A read has just driven its pin high and read the bus although the cache
\* of the module was fresh: the counter is armed again, one earlier read of
\* the module is a tick old.
C23_Witness ==
  /\ op.name = "read"
  /\ Len(bus) = 1 /\ bus[1].data # -1
  /\ chain[1].portCounter[ModuleOf(chain[1], op.pin)] = minTicksBetweenPortReads
  /\ AgesOf(ModuleOf(chain[1], op.pin)) = {0, 1}

\* C24: a read of a PCF8574 pin whose output shadow bit is 0 sets the bit,
\* sends the updated output shadow in the one bus transaction it makes, a
\* read of the pin's module, and arms the counter afresh, whatever the
\* counter was; after any read the bit of its pin is 1, and a read changes
\* no other bit of any output shadow.
C24_ReadDrivesHigh ==
  [][op'.name = "read" =>
       LET m == ModuleOf(chain[1], op'.pin)
           b == BitOf(chain[1], op'.pin)
       IN /\ chain'[1].portOutputState =
               [chain[1].portOutputState EXCEPT ![m] = SetBit(@, b)]
          /\ TestBit(chain'[1].portOutputState[m], b)
          /\ ~TestBit(chain[1].portOutputState[m], b)
               => /\ FreshRead
                  /\ bus'[1].data = chain'[1].portOutputState[m]
                  /\ chain'[1].portCounter[m] = minTicksBetweenPortReads]_vars

\* Pin 101 has just been read and driven high in one bus transaction while
\* the bus read made for pin 100 was not a tick old.
C24_Witness ==
  /\ op.name = "read" /\ op.pin = 101
  /\ Len(bus) = 1 /\ bus[1].rw = "r"
  /\ bus[1].data = chain[1].portOutputState[1]
  /\ TestBit(chain[1].portOutputState[1], 1)
  /\ cacheAge[1][1] = 0 /\ cacheAge[1][2] = 0

\* Whole tick intervals between the last tick and now.
WholeTicks == Div32(SinceTick, portTickTime)

\* C25 as stated: a loop call that counts a tick (more than one tick interval
\* has passed since the last one) and finds k whole tick intervals elapsed
\* takes k off every counter that is not 0, stopping at 0, in both sources.
C25_Claim ==
  [][(op'.name = "loop" /\ Gt32(SinceTick, portTickTime))
       => \A m \in 1..chain[1].nModules :
            chain'[1].portCounter[m] =
              IF chain[1].portCounter[m] > WholeTicks
              THEN chain[1].portCounter[m] - WholeTicks ELSE 0]_vars

\* The step reads some chip from the bus.
ReadsBus == \E k \in 1..Len(bus') : bus'[k].rw = "r"

\* C26 as stated, in the case it spells out: in either expander family a
\* read of a pin that directly follows a read of the same pin (the freshness
\* window has not passed, nothing was written) makes no bus read.
C26_Claim ==
  [][(/\ op.name = "read" /\ op'.name = "read" /\ op'.pin = op.pin
      /\ OwnerOf(op.pin) # 0
      /\ chain[OwnerOf(op.pin)].kind \in {"PCF8574", "MCP23017"})
       => ~ReadsBus]_vars

\* C27 as stated: every bus transaction that a write or read of an expander
\* pin causes goes to the chip at the device's base address plus the module
\* index of the pin, (pin - firstID) div 8 for the PCF8574 and div 16 for the
\* MCP23017.
C27_Claim ==
  [][(/\ op'.name \in {"write", "read"}
      /\ OwnerOf(op'.pin) # 0
      /\ chain[OwnerOf(op'.pin)].kind \in {"PCF8574", "MCP23017"})
       => LET d == chain[OwnerOf(op'.pin)]
          IN \A k \in 1..Len(bus') :
               bus'[k].addr = d.I2CAddress + ((op'.pin - d.firstID) \div PinsPerModule(d))]_vars

\* C28: a write to an Analogue device of a value that differs from its known
\* state takes the number of steps from the profile (Instant 1, Fast 10,
\* Medium 20, Slow 40, Bounce 30, anything else 10 and the profile becomes
\* Fast), moves from the current position to the extreme of the new value,
\* and makes the first step of the count restarted from 0.
C28_StepCount ==
  [][StartsMove =>
       LET k == Servo.profileKind
           n == IF k = Instant THEN 1 ELSE IF k = Fast THEN 10
                ELSE IF k = Medium THEN 20 ELSE IF k = Slow THEN 40
                ELSE IF k = Bounce THEN 30 ELSE 10
           from == Servo.currentPosition
           to == ExtremeOf(Servo, op'.value)
       IN /\ ServoNext.numSteps = n
          /\ ServoNext.profileKind =
               (IF k \in {Instant, Fast, Medium, Slow, Bounce} THEN k ELSE Fast)
          /\ ServoNext.state = op'.value
          /\ ServoNext.fromPosition = from
          /\ ServoNext.toPosition = to
          /\ ServoNext.stepNumber = 1
          /\ ServoNext.currentPosition =
               (IF k = Bounce THEN from + CDiv(profile[1] * (to - from), 100)
                ELSE from + CDiv(to - from, n))]_vars

\* A write has just started a movement of a Bounce device: 30 steps, the
\* first one made.
C28_Witness ==
  /\ op.name = "write"
  /\ Servo.profileKind = Bounce
  /\ Servo.numSteps = 30 /\ Servo.stepNumber = 1
  /\ Servo.toPosition = ExtremeOf(Servo, op.value)
  /\ Servo.currentPosition # Servo.fromPosition

\* C29 as stated: a step of a movement writes a position downstream only
\* when the position changes, so the position it pushes differs from the
\* position the device held (and had pushed) before the step.
C29_Claim ==
  [][(StartsMove \/ ContinuesMove)
       => \A k \in 1..Len(Driven(calls')) :
            Driven(calls')[k].value # Servo.currentPosition]_vars

----------------------------------------------------------------------------
\* C31 .. C38

\* A movement of the Analogue device is in progress.
InProgress == Servo.stepNumber < Servo.numSteps

\* The next step is a configure call with four parameters for the servo pin.
Reconfigures == op'.name = "configure" /\ op'.pin = ServoPin /\ op'.value = 4

\* C31 as stated: a movement in progress is ended early only by a write of
\* the other value; no other operation on the pin, configure included,
\* changes the step count, moves the step index back or changes the target.
C31_Original ==
  [][(InProgress /\ ~StartsMove)
       => /\ ServoNext.numSteps = Servo.numSteps
          /\ ServoNext.stepNumber >= Servo.stepNumber
          /\ ServoNext.toPosition = Servo.toPosition]_vars

\* C31, amended: a movement in progress is ended early by a write of the
\* other value, which starts a new movement from the current position, and
\* by a configure call with four parameters, which sets the step index and
\* the step count to 0 and jumps to the new position of the current state;
\* a write of the same value, a configure call with another parameter count
\* and a loop call that is not a refresh tick leave the device as it is, and
\* a refresh tick takes one step of the same movement.
C31_EndedEarly ==
  [][InProgress
       => IF StartsMove
            THEN /\ ServoNext.stepNumber = 1
                 /\ ServoNext.fromPosition = Servo.currentPosition
                 /\ ServoNext.toPosition = ExtremeOf(Servo, op'.value)
          ELSE IF Reconfigures
            THEN /\ ServoNext.stepNumber = 0 /\ ServoNext.numSteps = 0
                 /\ ServoNext.state = Servo.state
                 /\ ServoNext.toPosition = Servo.toPosition
                 /\ ServoNext.currentPosition = ExtremeOf(ServoNext, Servo.state)
                 /\ ServoNext.activePosition = op'.params[2]
                 /\ ServoNext.inactivePosition = op'.params[3]
          ELSE IF RefreshTick
            THEN /\ ServoNext.stepNumber = Servo.stepNumber + 1
                 /\ ServoNext.numSteps = Servo.numSteps
                 /\ ServoNext.fromPosition = Servo.fromPosition
                 /\ ServoNext.toPosition = Servo.toPosition
          ELSE chain' = chain]_vars

\* A configure call has just stopped a movement short of its target: the
\* counters are 0 and the position is not the target of the movement.
C31_Witness ==
  /\ op.name = "configure" /\ op.value = 4
  /\ Servo.stepNumber = 0 /\ Servo.numSteps = 0
  /\ Servo.fromPosition # Servo.toPosition
  /\ Servo.currentPosition # Servo.toPosition
  /\ Servo.currentPosition # Servo.fromPosition


\* The hook of followed device id fires in the next step: it stores the time.
Fires(id) == HookTime(DevById(chain', id)) # HookTime(DevById(chain, id))

ShadowBit(d, q) ==
  LET pin0 == q - d.firstID
  IN IF d.kind = "PCF8574"
     THEN TestBit(d.portOutputState[(pin0 \div 8) + 1], pin0 % 8)
     ELSE IF pin0 % 16 < 8
     THEN TestBit(d.currentPortStateA[(pin0 \div 16) + 1], pin0 % 16)
     ELSE TestBit(d.currentPortStateB[(pin0 \div 16) + 1], (pin0 % 16) - 8)

\* C33 as stated: write(pin, v) on a PCF8574 or MCP23017 sets the output
\* shadow bit of that pin to v and leaves the shadow bit of every other pin
\* of the device as it was, for pins 8..15 of an MCP23017 module as well.
C33_Claim ==
  [][(/\ op'.name = "write"
      /\ OwnerOf(op'.pin) # 0
      /\ chain[OwnerOf(op'.pin)].kind \in {"PCF8574", "MCP23017"})
       => LET i == OwnerOf(op'.pin)
          IN \A q \in chain[i].firstID .. chain[i].firstID + chain[i].nPins - 1 :
               ShadowBit(chain'[i], q) = IF q = op'.pin THEN op'.value # 0
                                         ELSE ShadowBit(chain[i], q)]_vars


\* C34: in the PCF8574 source that has the _counterSet flag, the flag is true
\* whenever the counter of some module is not 0; so a loop call that counts
\* a tick never leaves a counter that is not 0 as it was: it lowers it by the
\* whole tick intervals elapsed, stopping at 0, and a counter reaches 0 after
\* at most as many ticks as its value.
C34_CounterSet ==
  /\ [](chain[1].variant = 1
          => ((\E m \in 1..chain[1].nModules : chain[1].portCounter[m] > 0)
                => chain[1].counterSet))
  /\ [][(chain[1].variant = 1 /\ op'.name = "loop" /\ Gt32(SinceTick, portTickTime))
          => \A m \in 1..chain[1].nModules :
               chain[1].portCounter[m] > 0
                 => /\ chain'[1].portCounter[m] < chain[1].portCounter[m]
                    /\ chain'[1].portCounter[m] =
                         IF chain[1].portCounter[m] > WholeTicks
                         THEN chain[1].portCounter[m] - WholeTicks ELSE 0]_vars

\* A tick has just brought the counter of the first module to 0 while that
\* of the second still has a tick to go, and the flag is still set.
C34_Witness ==
  /\ chain[1].variant = 1
  /\ op.name = "loop" /\ chain[1].lastLoopEntry = clock
  /\ chain[1].portCounter = <<0, 1>>
  /\ chain[1].counterSet


\* C35: when a movement of the Analogue device has made all its steps, the
\* current position is the target position exactly, whatever the profile and
\* whatever the two positions, upwards or downwards, and the step that
\* completes it writes the target position to the device pin.
C35_LandsOnTarget ==
  /\ []((Servo.numSteps > 0 /\ Servo.stepNumber >= Servo.numSteps)
          => Servo.currentPosition = Servo.toPosition)
  /\ [][(Servo.stepNumber' # Servo.stepNumber
           /\ ServoNext.numSteps > 0 /\ ServoNext.stepNumber = ServoNext.numSteps)
          => /\ ServoNext.currentPosition = ExtremeOf(Servo, ServoNext.state)
             /\ Len(Driven(calls')) = 1
             /\ Driven(calls')[1].pin = DrivenPin
             /\ Driven(calls')[1].value = I16(ServoNext.toPosition)]_vars

\* The thirtieth step of a Bounce movement downwards over the whole range,
\* begun in the middle of the movement upwards, has just been made.
C35_Witness ==
  /\ op.name = "updatePosition"
  /\ Servo.profileKind = Bounce
  /\ Servo.numSteps = 30 /\ Servo.stepNumber = 30
  /\ Servo.activePosition = 4095 /\ Servo.inactivePosition = 0
  /\ Servo.fromPosition \notin {0, 4095} /\ Servo.toPosition = 0
  /\ Servo.currentPosition = 0
  /\ Len(Driven(calls)) = 1


\* The Analogue device is idle: updatePosition has nothing left to do.
Idle ==
  \/ Servo.stepNumber > Servo.numSteps + catchupSteps
  \/ /\ Servo.stepNumber = Servo.numSteps + catchupSteps
     /\ Servo.currentPosition \in {0, 4095}

\* From some time on, loop calls are less than 65536 microseconds minus the
\* refresh interval apart.
FrequentLoops ==
  <>[](op.name = "advance" => op.value < 65536 - refreshInterval * 1000)

\* C36 as stated: if the loop hook keeps being called with an advancing
\* clock and no further write arrives, the Analogue device eventually
\* becomes idle and stays so: the movement has made all its steps, the
\* catch-up steps have passed and PWM-off has been issued if it was due.
C36_Original == <>[]Idle

\* C36, amended: the same, provided that from some time on the loop calls
\* are less than 65536 microseconds minus the refresh interval apart; the
\* device then stays idle and the loop calls write nothing downstream.
C36_Settles == FrequentLoops => <>[](Idle /\ Driven(calls) = <<>>)

\* A movement of 10 steps between 100 and 105 has settled: the step after
\* the catch-up steps has just switched the PWM off, after the clock wrapped.
C36_Witness ==
  /\ op.name = "loop" /\ clock.hi = 1
  /\ Servo.numSteps = 10 /\ Servo.stepNumber = 10 + catchupSteps + 1
  /\ Servo.currentPosition = Servo.toPosition
  /\ Servo.toPosition \in {100, 105}
  /\ Driven(calls) = <<[h |-> "write", to |-> 1, by |-> 2, pin |-> DrivenPin,
                        value |-> 0, head |-> Driven(calls)[1].head]>>
  /\ Idle


\* The Analogue devices of chain ch that own pin p.
ServosAt(ch, p) == {j \in 1..Len(ch) : isDeletable(ch[j]) /\ owns(ch[j], p)}

\* The devices of ch other than the Analogue devices that own pin p, by
\* identity, in chain order.
Others(ch, p) ==
  LET rest == SelectSeq(ch, LAMBDA d : ~(isDeletable(d) /\ owns(d, p)))
  IN [j \in 1..Len(rest) |-> rest[j].id]

\* C37: whatever devices are created and removed, every pin is owned by at
\* most one Analogue device; creating an Analogue device on a pin takes the
\* one that owns the pin, if any, out of the chain and links the new one at
\* the head, and leaves every other device linked in the same order.
C37_OneServoPerPin ==
  /\ [](\A p \in Pins : Cardinality(ServosAt(chain, p)) <= 1)
  /\ [][(op'.name = "create" /\ isDeletable(chain'[1]))
          => /\ chain'[1].id = op'.id /\ chain'[1].firstID = op'.pin
             /\ ServosAt(chain', op'.pin) = {1}
             /\ \A j \in ServosAt(chain, op'.pin) : ~Present(chain', chain[j].id)
             /\ Others(chain', op'.pin) = Others(chain, op'.pin)]_vars

\* An Analogue device has just replaced another on pin 3, which was linked
\* behind a permanent device that covers the pin as well.
C37_Witness ==
  /\ op.name = "create" /\ op.pin = 3
  /\ Len(created) = 3
  /\ created[1].kind = "Analogue" /\ created[1].firstID = 3
  /\ Len(chain) = 2
  /\ isDeletable(chain[1]) /\ chain[1].id = 3
  /\ Permanent(chain[2]) /\ chain[2].id = 2 /\ InRange(chain[2], 3)
  /\ ~Present(chain, 1)

\* C38 as stated: every write an Analogue device makes downstream, the
\* position pushed by configure included, is addressed to the device pin it
\* is configured with, also when that pin is not the device's own pin.
C38_Claim ==
  \A k \in 1..Len(calls) :
    (/\ calls[k].h = "write" /\ calls[k].by # 0
     /\ Present(chain, calls[k].by)
     /\ DevById(chain, calls[k].by).kind = "Analogue")
      => calls[k].pin = DevById(chain, calls[k].by).devicePin

=============================================================================
